---- MODULE Spec2Model ----
(***************************************************************************)
(* Review normalization and classification pipeline of verbatimai:        *)
(*   backend/app/services/ai_service.py                (classifier)       *)
(*   backend/app/services/universal_review_importer.py (ingestion)        *)
(*   backend/app/routers/feedback.py                   (import batch)     *)
(*                                                                         *)
(* Each component is modelled by pure operators that follow the source     *)
(* statement by statement, and by a small state machine that draws the     *)
(* component's inputs from bounded sets and applies the operators.         *)
(***************************************************************************)
EXTENDS Integers, Sequences, FiniteSets, TLC

VARIABLES
    nr,     \* last call of _normalize_rating: its input column and its output
    vc,     \* last call of validate_and_clean: its input table and its output
    ar,     \* last call of _adjust_sentiment_with_rating: its arguments and result
    af,     \* the analyze_feedback coroutine: position, arguments, result
    ub,     \* the upload_universal_reviews request: its analysis loop
    dp,     \* calls of detect_platform on one column list: the list and the tags returned
    nt,     \* normalize_topics applied to a list of phrases and again to its own output
    pdt,    \* last call of _parse_dates: the column, the generic parse of it, the result
    mc,     \* last call of map_columns: the table given, the table afterwards, the columns found, the result
    pv,     \* last call of preview_csv: the file content and the report
    va,     \* last call of _validate_ai_result: its argument and what it returned or raised
    ej,     \* last call of _extract_json_from_text: the text and the value returned
    fb      \* the feedback items stored for one user and the last request served

vars == <<nr, vc, ar, af, ub, dp, nt, pdt, mc, pv, va, ej, fb>>

(***************************************************************************)
(* Bounds of the model.                                                    *)
(***************************************************************************)
MaxSeries == 3      \* longest rating column given to _normalize_rating
MaxRows   == 2      \* most rows of a table given to validate_and_clean
MaxBatch  == 3      \* most records persisted by one import request
MaxColumns == 2     \* longest enumerated column list given to detect_platform
MaxTopics == 2      \* longest list of phrases given to normalize_topics
MaxDates  == 3      \* longest date column given to _parse_dates
MaxPieces == 3      \* most pieces of a response text given to _extract_json_from_text

(***************************************************************************)
(* Generic helpers.                                                        *)
(***************************************************************************)
Range(s) == { s[i] : i \in 1..Len(s) }

SeqsUpTo(S, n) == UNION { [1..k -> S] : k \in 0..n }

\* The sequences that list every element of the finite set S exactly once.
Orderings(S) ==
    { s \in [1..Cardinality(S) -> S] : \A i, j \in 1..Cardinality(S) : s[i] = s[j] => i = j }

\* The element of a one-element set; used to evaluate a value once.
TheOne(S) == CHOOSE x \in S : TRUE

Prefix(s, n) == SubSeq(s, 1, IF Len(s) < n THEN Len(s) ELSE n)

(***************************************************************************)
(* Numbers.  A pandas float is modelled exactly as an integer count of     *)
(* tenths (12 is 1.2), so that /2, /20, round() and clip() are computed    *)
(* without loss.                                                           *)
(***************************************************************************)
Tenths(n) == n * 10

\* numpy's round(): n/d to the nearest integer, a tie going to the even one.
RoundHalfEven(n, d) ==
    LET q == n \div d
        r == n % d
    IN  IF 2 * r < d THEN q
        ELSE IF 2 * r > d THEN q + 1
        ELSE IF q % 2 = 0 THEN q ELSE q + 1

(***************************************************************************)
(* A cell of a rating column: missing (None / NaN), a string that is not a *)
(* number, or a number (in tenths).                                        *)
(***************************************************************************)
NaN      == [k |-> "nan",  v |-> 0]
TextCell == [k |-> "text", v |-> 0]
Num(v)   == [k |-> "num",  v |-> v]

IsNaN(c) == c.k = "nan"

\* pd.to_numeric(..., errors='coerce'): what is not a number becomes NaN.
to_numeric(c) == IF c.k = "num" THEN c ELSE NaN

\* Series.max() / Series.min(): NaN is skipped; NaN when nothing is left.
NumValues(s) == { s[i].v : i \in { j \in 1..Len(s) : s[j].k = "num" } }
SeriesMax(s) == CHOOSE m \in NumValues(s) : \A x \in NumValues(s) : x <= m
SeriesMin(s) == CHOOSE m \in NumValues(s) : \A x \in NumValues(s) : m <= x

\* Series.round(): NaN stays NaN.
round_cell(c) == IF IsNaN(c) THEN c ELSE Num(Tenths(RoundHalfEven(c.v, 10)))

\* (Series / k).round()
div_round_cell(c, k) == IF IsNaN(c) THEN c ELSE Num(Tenths(RoundHalfEven(c.v, 10 * k)))

\* Series.clip(1, 5) that also fills a missing value with the lower bound.
clip_cell_fills_missing(c) ==
    IF IsNaN(c) THEN Num(Tenths(1))
    ELSE IF c.v < Tenths(1) THEN Num(Tenths(1))
    ELSE IF c.v > Tenths(5) THEN Num(Tenths(5))
    ELSE c

\* Series.clip(1, 5): NaN stays NaN.
clip_cell(c) ==
    IF IsNaN(c) THEN c
    ELSE IF c.v < Tenths(1) THEN Num(Tenths(1))
    ELSE IF c.v > Tenths(5) THEN Num(Tenths(5))
    ELSE c

\* The first branch taken only below a maximum of 5 (`<` for `<=`).
already_1_to_5_strict(max_rating, min_rating) ==
    max_rating < Tenths(5) /\ min_rating >= Tenths(1)

\* The first branch of _normalize_rating: the column is already on the 1-5 scale.
already_1_to_5(max_rating, min_rating) ==
    max_rating <= Tenths(5) /\ min_rating >= Tenths(1)

\* UniversalReviewImporter._normalize_rating
normalize_rating(ratings) ==
    LET ratings_numeric == [i \in 1..Len(ratings) |-> to_numeric(ratings[i])]
    IN  IF NumValues(ratings_numeric) = {} THEN ratings_numeric
        ELSE LET max_rating == SeriesMax(ratings_numeric)
                 min_rating == SeriesMin(ratings_numeric)
             IN  IF already_1_to_5(max_rating, min_rating)
                 THEN [i \in 1..Len(ratings) |-> round_cell(ratings_numeric[i])]
                 ELSE IF max_rating <= Tenths(10)
                 THEN [i \in 1..Len(ratings) |-> clip_cell(div_round_cell(ratings_numeric[i], 2))]
                 ELSE IF max_rating <= Tenths(100)
                 THEN [i \in 1..Len(ratings) |-> clip_cell(div_round_cell(ratings_numeric[i], 20))]
                 ELSE [i \in 1..Len(ratings) |-> clip_cell(ratings_numeric[i])]

\* The cells a rating column is drawn from: missing, text, and numbers on
\* the 1-5, 10-point and 100-point scales and beyond, with fractions and ties.
RatingCells ==
    {NaN, TextCell} \cup { Num(v) : v \in {0, 10, 25, 27, 50, 70, 100, 600, 1500} }

(***************************************************************************)
(* Strings.  A Python str is a TLA+ string; the operators below compute    *)
(* str.strip(), str.lower() and the substring test `t in s`.               *)
(***************************************************************************)
Char(s, i) == SubSeq(s, i, i)

IsSpace(c) == c \in {" ", "\t", "\n"}

RECURSIVE LStrip(_)
LStrip(s) ==
    IF Len(s) > 0 /\ IsSpace(Char(s, 1)) THEN LStrip(SubSeq(s, 2, Len(s))) ELSE s

RECURSIVE RStrip(_)
RStrip(s) ==
    IF Len(s) > 0 /\ IsSpace(Char(s, Len(s))) THEN RStrip(SubSeq(s, 1, Len(s) - 1)) ELSE s

\* str.strip()
Strip(s) == RStrip(LStrip(s))

\* t in s
Contains(s, t) ==
    \E i \in 1..(Len(s) - Len(t) + 1) : SubSeq(s, i, i + Len(t) - 1) = t

(***************************************************************************)
(* validate_and_clean.  A mapped table has a rating column and a comment   *)
(* column, either of which may be absent, and its rows.  A comment cell is *)
(* missing (None / NaN) or a string.  The reviewer_name and source columns *)
(* are only filled in place by the code (lines 352-363) and the metadata   *)
(* columns only added (365-367): no row is dropped for them, and they are  *)
(* left out of the rows here.                                              *)
(***************************************************************************)
NoComment  == [k |-> "nan", s |-> ""]
Comment(s) == [k |-> "str", s |-> s]

Row(r, c) == [rating |-> r, comment |-> c]

\* DataFrame.dropna(subset=['comment', 'rating'], how='all') raises KeyError
\* when a column of the subset is not a column of the frame.
dropna_raises(df) == ~df.has_comment \/ ~df.has_rating

\* Line 330: a row goes when comment and rating are both NA.
dropna_keeps(row) == ~(row.comment.k = "nan" /\ IsNaN(row.rating))

\* Lines 336-337: fillna('') then astype(str).str.strip()
clean_comment(row) ==
    [row EXCEPT !.comment = Comment(IF row.comment.k = "nan" THEN "" ELSE Strip(row.comment.s))]

\* Line 340: keep unless the comment is '' and pd.isna(rating); the rating
\* is still the raw cell here, and pd.isna of a string is False.
comment_keeps(row) == ~(row.comment.s = "" /\ IsNaN(row.rating))

\* Line 347: pd.to_numeric(df['rating'], errors='coerce')
coerce_rating(row) == [row EXCEPT !.rating = to_numeric(row.rating)]

\* Line 348: df['rating'].isna() | df['rating'].between(1, 5)
rating_keeps(row) ==
    IsNaN(row.rating) \/ (Tenths(1) <= row.rating.v /\ row.rating.v <= Tenths(5))

strip_all(s) == [i \in 1..Len(s) |-> Strip(s[i])]

Issue(removed, why) == [removed |-> removed, why |-> why]

\* The issues list grows by one entry for each rule that removed a row.
AddIssue(issues, before, after, why) ==
    IF Len(after) < Len(before) THEN Append(issues, Issue(Len(before) - Len(after), why)) ELSE issues

\* The division without the test of original_count.
success_rate_unguarded(final_count, original_count) ==
    [num |-> final_count, den |-> original_count]

\* len(df) / original_count if original_count > 0 else 0, as a fraction.
success_rate(final_count, original_count) ==
    IF original_count > 0 THEN [num |-> final_count, den |-> original_count]
    ELSE [num |-> 0, den |-> 1]

\* UniversalReviewImporter.validate_and_clean
validate_and_clean(df) ==
    IF dropna_raises(df)
    THEN [raised |-> TRUE, rows |-> <<>>,
          stats |-> [original_count |-> Len(df.rows), final_count |-> 0,
                     success_rate |-> success_rate(0, 0), issues |-> <<>>]]
    ELSE
    LET original_count == Len(df.rows)
        df1     == SelectSeq(df.rows, dropna_keeps)
        issues1 == AddIssue(<<>>, df.rows, df1, "no comment or rating")
        df2a    == IF df.has_comment THEN [i \in 1..Len(df1) |-> clean_comment(df1[i])] ELSE df1
        df2     == IF df.has_comment THEN SelectSeq(df2a, comment_keeps) ELSE df2a
        issues2 == AddIssue(issues1, df2a, df2, "empty comments and no rating")
        df3a    == IF df.has_rating THEN [i \in 1..Len(df2) |-> coerce_rating(df2[i])] ELSE df2
        df3     == IF df.has_rating THEN SelectSeq(df3a, rating_keeps) ELSE df3a
        issues3 == AddIssue(issues2, df3a, df3, "invalid ratings")
    IN  [raised |-> FALSE, rows |-> df3,
         stats |-> [original_count |-> original_count, final_count |-> Len(df3),
                    success_rate |-> success_rate(Len(df3), original_count),
                    issues |-> issues3]]

\* The cells the rows of a mapped table are drawn from.
TableRatings  == {NaN, TextCell} \cup { Num(Tenths(v)) : v \in {0, 3, 5, 6} }
TableComments == {NoComment} \cup { Comment(s) : s \in {"", "  ", " Great! "} }

\* An absent column has no cells: its cell is missing in every row.
Tables ==
    { [has_rating |-> hr, has_comment |-> hc, rows |-> rows] :
        hr \in BOOLEAN, hc \in BOOLEAN,
        rows \in SeqsUpTo({ Row(r, c) : r \in TableRatings, c \in TableComments }, MaxRows) }

WellFormedTable(df) ==
    \A i \in 1..Len(df.rows) :
        /\ (~df.has_rating => df.rows[i].rating = NaN)
        /\ (~df.has_comment => df.rows[i].comment = NoComment)

(***************************************************************************)
(* str.lower() over the letters that occur in the model's texts.           *)
(***************************************************************************)
UpperLetters == "ABCDEFGHIJKLMNOPQRSTUVWXYZ"
LowerLetters == "abcdefghijklmnopqrstuvwxyz"

LowerChar(c) ==
    IF \E i \in 1..Len(UpperLetters) : Char(UpperLetters, i) = c
    THEN Char(LowerLetters, CHOOSE i \in 1..Len(UpperLetters) : Char(UpperLetters, i) = c)
    ELSE c

RECURSIVE Lower(_)
Lower(s) == IF Len(s) = 0 THEN s ELSE LowerChar(Char(s, 1)) \o Lower(SubSeq(s, 2, Len(s)))

\* any(word in s for word in words)
AnyIn(words, s) == \E i \in 1..Len(words) : Contains(s, words[i])

(***************************************************************************)
(* detect_platform (universal_review_importer.py).  The indicator table is *)
(* a dict of dicts, iterated in insertion order.  A score is a sum of      *)
(* weight, weight * 0.7 and weight * 0.5; it is kept exactly, as a count   *)
(* of tenths.                                                              *)
(***************************************************************************)
Indicator(name, weight) == [name |-> name, weight |-> weight]

platform_indicators == <<
    [platform |-> "amazon",
     indicators |-> <<
           Indicator("review_body", 10), Indicator("vine_customer_review", 10),
           Indicator("verified_purchase", 10), Indicator("marketplace", 10),
           Indicator("product_id", 9), Indicator("product_title", 8),
           Indicator("product_category", 8), Indicator("helpful_votes", 8),
           Indicator("total_votes", 8), Indicator("asin", 9),
           Indicator("star_rating", 5), Indicator("reviewer_name", 3),
           Indicator("review_date", 3) >>],
    [platform |-> "google",
     indicators |-> <<
           Indicator("reviewer_display_name", 10), Indicator("review_id", 10),
           Indicator("review_reply", 8), Indicator("reviewer_profile_photo", 8),
           Indicator("business_reply", 8), Indicator("location_id", 9),
           Indicator("star_rating", 3), Indicator("review_comment", 5),
           Indicator("review_text", 3), Indicator("create_time", 4) >>],
    [platform |-> "yelp",
     indicators |-> <<
           Indicator("business_id", 10), Indicator("review_id", 9),
           Indicator("user_id", 8), Indicator("elite_year", 10),
           Indicator("cool", 8), Indicator("funny", 8),
           Indicator("useful", 8), Indicator("rating", 3),
           Indicator("text", 3), Indicator("date", 2) >>],
    [platform |-> "facebook",
     indicators |-> <<
           Indicator("recommendation_type", 10), Indicator("created_time", 9),
           Indicator("from_name", 8), Indicator("from_id", 8),
           Indicator("page_id", 8), Indicator("post_id", 7),
           Indicator("message", 5), Indicator("rating", 4) >>],
    [platform |-> "tripadvisor",
     indicators |-> <<
           Indicator("visit_date", 10), Indicator("trip_type", 9),
           Indicator("traveler_type", 8), Indicator("hotel_id", 8),
           Indicator("location_id", 8), Indicator("rating", 5),
           Indicator("review_text", 4), Indicator("title", 4) >>] >>

\* [col.lower().strip() for col in columns]
columns_lower(columns) == [i \in 1..Len(columns) |-> Strip(Lower(columns[i]))]

\* What one indicator adds to the score of its platform (lines 172-183):
\* an exact match, else the indicator inside a column name, else a column
\* name of more than 3 characters inside the indicator.
indicator_score(indicator, cols) ==
    IF \E i \in 1..Len(cols) : cols[i] = indicator.name
    THEN Tenths(indicator.weight)
    ELSE IF \E i \in 1..Len(cols) : Contains(cols[i], indicator.name)
    THEN indicator.weight * 7
    ELSE IF \E i \in 1..Len(cols) : Len(cols[i]) > 3 /\ Contains(indicator.name, cols[i])
    THEN indicator.weight * 5
    ELSE 0

RECURSIVE sum_scores(_, _)
sum_scores(indicators, cols) ==
    IF indicators = <<>> THEN 0
    ELSE indicator_score(Head(indicators), cols) + sum_scores(Tail(indicators), cols)

\* platform_scores[platform]['score'], in the order of platform_indicators
platform_scores(cols) ==
    [p \in 1..Len(platform_indicators) |-> sum_scores(platform_indicators[p].indicators, cols)]

\* max() that may return any of the platforms with the highest score.
max_by_score_any(scores) ==
    { p \in 1..Len(scores) : \A q \in 1..Len(scores) : scores[q] <= scores[p] }

\* max(platform_scores.keys(), key=...): the values the call can return.
\* max() returns the first maximal key in iteration order, so there is one.
max_by_score(scores) ==
    { p \in 1..Len(scores) : /\ \A q \in 1..Len(scores) : scores[q] <= scores[p]
                             /\ \A q \in 1..(p - 1) : scores[q] < scores[p] }

\* The threshold test with `<=` for `<`.
below_threshold_inclusive(score) == score <= Tenths(3)

\* best_score < 3
below_threshold(score) == score < Tenths(3)

\* UniversalReviewImporter.detect_platform: the tags the call can return.
\* (platform_scores is never empty, so line 190 never returns.)
detect_platform(columns) ==
    LET scores == platform_scores(columns_lower(columns))
    IN  { IF below_threshold(scores[best_platform]) THEN "generic"
          ELSE platform_indicators[best_platform].platform :
              best_platform \in max_by_score(scores) }

\* Column names given to detect_platform: shared names, platform-unique
\* names, a short name, an unknown name and one with capitals and spaces.
ColumnNames ==
    { "rating", "name", "comment", "text", "date", " Star_Rating ", "review_id",
      "location_id", "verified_purchase", "id", "unknown_col1" }

\* The column lists of the repository's tests and of the documented scenarios.
TestColumnLists ==
    { <<"name", "rating", "comment">>,
      <<"name", "rating", "text", "date">>,
      <<"unknown_col1", "mystery_col2", "weird_col3">>,
      <<"STAR_RATING", "REVIEW_BODY", "VERIFIED_PURCHASE">>,
      <<"review_body", "verified_purchase", "star_rating", "asin">>,
      <<"reviewer_display_name", "review_reply", "location_id">>,
      <<"reviewer_display_name", "star_rating", "review_text", "create_time">> }

ColumnLists == SeqsUpTo(ColumnNames, MaxColumns) \cup TestColumnLists

(***************************************************************************)
(* The topic taxonomy (ai_service.py, STANDARD_TOPICS), in dict order.     *)
(***************************************************************************)
STANDARD_TOPICS == <<
    [name |-> "Product Quality",
     keywords |-> <<"product", "quality", "item", "goods", "merchandise", "materials",
                    "build", "craftsmanship", "durability", "defect", "broken",
                    "poor quality", "excellent quality", "high quality", "low quality">>],
    [name |-> "Customer Service",
     keywords |-> <<"service", "staff", "employee", "support", "help", "representative",
                    "team", "assistance", "rude", "helpful", "friendly", "professional",
                    "attitude">>],
    [name |-> "Shipping & Delivery",
     keywords |-> <<"shipping", "delivery", "shipping speed", "fast delivery",
                    "slow delivery", "delayed", "on time", "package", "packaging",
                    "arrived", "logistics">>],
    [name |-> "Pricing & Value",
     keywords |-> <<"price", "cost", "expensive", "cheap", "affordable", "value", "money",
                    "pricing", "overpriced", "reasonable", "deal", "discount">>],
    [name |-> "User Experience",
     keywords |-> <<"easy", "difficult", "user friendly", "confusing", "intuitive",
                    "complicated", "simple", "experience", "interface", "usability">>],
    [name |-> "Payment & Billing",
     keywords |-> <<"payment", "billing", "charge", "credit card", "checkout", "invoice",
                    "subscription", "refund", "transaction">>],
    [name |-> "Website & App",
     keywords |-> <<"website", "app", "application", "mobile", "browser", "online",
                    "platform", "navigation", "loading", "crashes">>],
    [name |-> "Communication",
     keywords |-> <<"communication", "response", "email", "phone", "chat", "contact",
                    "reply", "information", "updates", "notification">> ] >>

\* The canonical topic names of the taxonomy.
CanonicalTopics == { STANDARD_TOPICS[i].name : i \in 1..Len(STANDARD_TOPICS) }

RECURSIVE Flatten(_)
Flatten(ss) == IF ss = <<>> THEN <<>> ELSE Head(ss) \o Flatten(Tail(ss))

\* TopicNormalizer._build_topic_map: keyword -> topic name, in insertion
\* order (no keyword occurs under two topics, so no entry is overwritten).
topic_map ==
    Flatten([t \in 1..Len(STANDARD_TOPICS) |->
                [k \in 1..Len(STANDARD_TOPICS[t].keywords) |->
                    [keyword |-> Lower(STANDARD_TOPICS[t].keywords[k]),
                     topic   |-> STANDARD_TOPICS[t].name]]])

NoTopic == "<none>"

\* TopicNormalizer._fuzzy_match_topic
fuzzy_match_topic(raw) ==
    LET raw_topic == Lower(raw)
    IN  IF /\ AnyIn(<<"bad", "good", "poor", "excellent", "high", "low">>, raw_topic)
           /\ AnyIn(<<"product", "quality", "item">>, raw_topic)
        THEN "Product Quality"
        ELSE IF /\ AnyIn(<<"bad", "good", "poor", "excellent", "great", "terrible">>, raw_topic)
                /\ AnyIn(<<"service", "staff", "support">>, raw_topic)
        THEN "Customer Service"
        ELSE IF /\ AnyIn(<<"fast", "slow", "quick", "delayed", "late">>, raw_topic)
                /\ AnyIn(<<"shipping", "delivery", "arrived">>, raw_topic)
        THEN "Shipping & Delivery"
        ELSE IF AnyIn(<<"expensive", "cheap", "affordable", "overpriced">>, raw_topic)
        THEN "Pricing & Value"
        ELSE NoTopic

\* The loop body with the exact match only (no partial, no fuzzy matching).
match_topic_exact_only(raw_topic) ==
    IF raw_topic = "" \/ Strip(raw_topic) = "" THEN NoTopic
    ELSE
    LET raw_topic_clean == Strip(Lower(raw_topic))
        exact == { i \in 1..Len(topic_map) : topic_map[i].keyword = raw_topic_clean }
    IN  IF exact # {} THEN topic_map[CHOOSE i \in exact : \A j \in exact : i <= j].topic
        ELSE NoTopic

\* The body of the loop of normalize_topics (lines 70-92): the canonical name
\* one raw phrase adds to the set, or NoTopic when it adds none.
match_topic(raw_topic) ==
    IF raw_topic = "" \/ Strip(raw_topic) = "" THEN NoTopic
    ELSE
    LET raw_topic_clean == Strip(Lower(raw_topic))
        exact   == { i \in 1..Len(topic_map) : topic_map[i].keyword = raw_topic_clean }
        partial == { i \in 1..Len(topic_map) :
                        \/ Contains(raw_topic_clean, topic_map[i].keyword)
                        \/ Contains(topic_map[i].keyword, raw_topic_clean) }
        First(I) == CHOOSE i \in I : \A j \in I : i <= j
    IN  IF exact # {} THEN topic_map[First(exact)].topic
        ELSE IF partial # {} THEN topic_map[First(partial)].topic
        ELSE fuzzy_match_topic(raw_topic_clean)

\* The set `normalized` that normalize_topics has built when its loop ends.
normalized_set(raw_topics) ==
    { match_topic(raw_topics[i]) : i \in 1..Len(raw_topics) } \ {NoTopic}

\* TopicNormalizer.normalize_topics returns list(normalized): the elements
\* of a Python set of strings, in an order that depends on the string hashes
\* of the process.  The value is the set of lists the call can return.
normalize_topics(raw_topics) == Orderings(normalized_set(raw_topics))

\* Phrases given to normalize_topics: the canonical names, a keyword, a
\* keyword with capitals and spaces, and a phrase that matches nothing.
TopicPhrases == CanonicalTopics \cup {"shipping", "  PRICE ", "xyz"}

(***************************************************************************)
(* Values handled by the classifier.  A Python value that reaches          *)
(* analyze_feedback as an analysis result is a dict, None, or something    *)
(* else (a list, a number, a string).  A dict is described by the keys the *)
(* code reads or writes; Absent stands for a key that is not in the dict.  *)
(*   tkind: the shape of dict["topics"]: "list" (topics holds the list),   *)
(*          "str" (a non-empty string, held as the one entry of topics),    *)
(*          "none" (None or another falsy non-list), "absent" (no key);    *)
(*   extra: the dict has a key other than those below.                     *)
(***************************************************************************)
Absent == "<absent>"

Dict(sentiment, tkind, topics) ==
    [kind |-> "dict", sentiment |-> sentiment, tkind |-> tkind, topics |-> topics,
     method |-> Absent, error |-> Absent, ai_error |-> Absent, fallback_used |-> FALSE,
     sentiment_adjusted |-> FALSE, original_ai_sentiment |-> Absent, extra |-> FALSE]

EmptyDict == Dict(Absent, "absent", <<>>)
PyNone    == [EmptyDict EXCEPT !.kind = "none"]
NonDict   == [EmptyDict EXCEPT !.kind = "other"]

\* `not result` of line 158: None, or a dict with no key.
Falsy(result) == result.kind = "none" \/ result = EmptyDict

valid_sentiments == {"positive", "negative", "neutral"}

NoRating == -1

\* The rating thresholds (lines 451-456 and 606-611).
rating_sentiment(rating) ==
    IF rating <= 2 THEN "negative"
    ELSE IF rating = 3 THEN "neutral"
    ELSE "positive"

positive_words == <<"good", "great", "excellent", "awesome", "love", "happy", "satisfied",
                    "recommend">>
negative_words == <<"bad", "poor", "terrible", "awful", "hate", "disappointed",
                    "dissatisfied", "problem", "issue">>

\* A count of every occurrence of every word, instead of one per word present.
word_count_occurrences(words, text_lower) ==
    Cardinality({ <<i, k>> \in (1..Len(words)) \X (1..Len(text_lower)) :
                    /\ k + Len(words[i]) - 1 <= Len(text_lower)
                    /\ SubSeq(text_lower, k, k + Len(words[i]) - 1) = words[i] })

\* sum(1 for word in words if word in text_lower)
word_count(words, text_lower) ==
    Cardinality({ i \in 1..Len(words) : Contains(text_lower, words[i]) })

\* Lines 440-445 of analyze_local.
text_sentiment(text) ==
    LET text_lower     == Lower(text)
        positive_count == word_count(positive_words, text_lower)
        negative_count == word_count(negative_words, text_lower)
    IN  IF positive_count > negative_count THEN "positive"
        ELSE IF negative_count > positive_count THEN "negative"
        ELSE "neutral"

\* Lines 447-469 of analyze_local: the rating, when given, decides.
final_sentiment(text, rating) ==
    IF rating # NoRating THEN rating_sentiment(rating) ELSE text_sentiment(text)

\* Lines 472-481 of analyze_local: the topics whose keywords occur in the text.
detected_topics(text) ==
    LET text_lower == Lower(text)
        hit == { t \in 1..Len(STANDARD_TOPICS) : AnyIn(STANDARD_TOPICS[t].keywords, text_lower) }
    IN  [i \in 1..Cardinality(hit) |->
            STANDARD_TOPICS[CHOOSE t \in hit : Cardinality({ u \in hit : u < t }) = i - 1].name]

\* Line 487 without the cut to 3 topics.
local_topics_uncut(topics) == IF topics # <<>> THEN topics ELSE <<"General Feedback">>

\* Line 487: topics[:3] if topics else ["General Feedback"]
local_topics(topics) == IF topics # <<>> THEN Prefix(topics, 3) ELSE <<"General Feedback">>

\* analyze_local: the set of results the call can return (one per order in
\* which list(normalized) can come out).
analyze_local(text, rating) ==
    IF text = "" \/ Strip(text) = ""
    THEN { [Dict("neutral", "list", <<>>) EXCEPT !.method = "local_fallback"] }
    ELSE { [Dict(final_sentiment(text, rating), "list", local_topics(topics))
                EXCEPT !.method = "local_analysis"] :
            topics \in normalize_topics(detected_topics(text)) }

\* _adjust_sentiment_with_rating reading the sentiment back after it has
\* been overwritten: original_ai_sentiment gets the rating's sentiment.
adjust_sentiment_original_lost(result, rating) ==
    IF rating = NoRating THEN result
    ELSE IF result.sentiment \notin {Absent, ""} /\ result.sentiment # rating_sentiment(rating)
         THEN [result EXCEPT !.sentiment = rating_sentiment(rating),
                             !.sentiment_adjusted = TRUE,
                             !.original_ai_sentiment = rating_sentiment(rating)]
         ELSE result

\* _adjust_sentiment_with_rating overriding without setting the flag.
adjust_sentiment_unflagged(result, rating) ==
    IF rating = NoRating THEN result
    ELSE IF result.sentiment \notin {Absent, ""} /\ result.sentiment # rating_sentiment(rating)
         THEN [result EXCEPT !.sentiment = rating_sentiment(rating),
                             !.original_ai_sentiment = result.sentiment]
         ELSE result

\* _adjust_sentiment_with_rating
adjust_sentiment_with_rating(result, rating) ==
    IF rating = NoRating THEN result
    ELSE LET ai_sentiment == result.sentiment
         IN  IF ai_sentiment \notin {Absent, ""} /\ ai_sentiment # rating_sentiment(rating)
             THEN [result EXCEPT !.sentiment = rating_sentiment(rating),
                                 !.sentiment_adjusted = TRUE,
                                 !.original_ai_sentiment = ai_sentiment]
             ELSE result

(***************************************************************************)
(* What a call returns: a value, or an exception with its str() message.   *)
(***************************************************************************)
Ok(value)  == [raised |-> FALSE, msg |-> "", value |-> value]
Raise(msg) == [raised |-> TRUE, msg |-> msg, value |-> PyNone]

\* Lines 578-585 of _validate_ai_result: a topic is kept when it is truthy,
\* non-blank after strip() and at most 50 characters long.
topic_ok(topic) == topic # "" /\ Strip(topic) # "" /\ Len(Strip(topic)) <= 50

\* The loop without its break: every topic that passes is kept.
clean_topics_uncapped(topics) == strip_all(SelectSeq(topics, topic_ok))

\* The loop stops once 3 topics are kept.
clean_topics(topics) == Prefix(strip_all(SelectSeq(topics, topic_ok)), 3)

\* Lines 562-566 of _validate_ai_result.
clean_sentiment(result) ==
    IF result.sentiment \in valid_sentiments THEN result.sentiment ELSE "neutral"

\* Lines 569-575 of _validate_ai_result (and 178-184 of analyze_feedback):
\* a non-list is wrapped when truthy and emptied otherwise.
topics_as_list(result) ==
    IF result.tkind \in {"list", "str"} THEN result.topics ELSE <<>>

\* _validate_ai_result: the outcomes the call can have.
validate_ai_result(result) ==
    IF result.kind # "dict" THEN { Raise("Invalid AI result format") }
    ELSE LET clean == clean_topics(topics_as_list(result))
         IN  { Ok(Dict(clean_sentiment(result), "list", topics)) :
                 topics \in (IF clean # <<>> THEN normalize_topics(clean) ELSE {<<>>}) }

(***************************************************************************)
(* The text of a remote response, described by what the extraction         *)
(* strategies of _extract_json_from_text find in it:                       *)
(*   whole     json.loads(text), or NoJson when the text is not JSON;      *)
(*   patterns  for each of the four json_patterns, in order, its matches,  *)
(*             each the value json.loads gives or NoJson when it raises;   *)
(*   re_sentiment, re_topics   what the two last-resort regexes capture    *)
(*             (Absent when the sentiment regex does not match).           *)
(***************************************************************************)
NoJson == [EmptyDict EXCEPT !.kind = "invalid"]

Response(whole, patterns, re_sentiment, re_topics) ==
    [whole |-> whole, patterns |-> patterns, re_sentiment |-> re_sentiment,
     re_topics |-> re_topics]

NonBlank(s) == Strip(s) # ""

\* The matches of the four json_patterns with the fenced-block patterns
\* tried first.
json_matches_fenced_first(text) ==
    text.patterns[3] \o text.patterns[4] \o text.patterns[1] \o text.patterns[2]

\* The matches of the four json_patterns in the order the two loops visit
\* them: pattern by pattern, and match by match within a pattern.
json_matches(text) == Flatten(text.patterns)

\* _extract_json_from_text
extract_json_from_text(text) ==
    LET matches == json_matches(text)
        parsed  == SelectSeq(matches, LAMBDA m : m # NoJson)
    IN  IF text.whole # NoJson THEN text.whole
        ELSE IF parsed # <<>> THEN Head(parsed)
        ELSE Dict(IF text.re_sentiment # Absent THEN Lower(text.re_sentiment) ELSE "neutral",
                  "list",
                  Prefix(strip_all(SelectSeq(text.re_topics, NonBlank)), 5))

(***************************************************************************)
(* What the remote backend does with one request.                          *)
(*   k = "timeout" | "connect"   httpx.TimeoutException / ConnectError     *)
(*   k = "transport"             another httpx transport error (ReadError, *)
(*                               ...), whose message msg may be empty      *)
(*   k = "status"                an HTTP response with status `code`       *)
(*   k = "badjson"               status 200, body not JSON                 *)
(*   k = "nocontent" | "notext"  status 200, JSON without content / text   *)
(*   k = "text"                  status 200 with the response text `resp`  *)
(* and, for a backend function replaced by a test double as in the unit    *)
(* tests of analyze_feedback:                                              *)
(*   k = "stub_return"           the double returns `value`                *)
(*   k = "stub_raise"            the double raises Exception(msg)          *)
(***************************************************************************)
NoResponse == Response(NoJson, <<>>, Absent, <<>>)

Backend(k) == [k |-> k, code |-> 0, msg |-> "", resp |-> NoResponse, value |-> PyNone]

IsStub(backend) == backend.k \in {"stub_return", "stub_raise"}

\* Lines 245-256: the exception raised for a status other than 200.
status_error(code) ==
    IF code = 401 THEN "Authentication failed"
    ELSE IF code = 429 THEN "Rate limit exceeded"
    ELSE IF code >= 500 THEN "Server error"
    ELSE "Unexpected status: " \o ToString(code)

\* Lines 282-285: the validated topics are normalized once more.
renormalize(result) ==
    IF result.topics # <<>>
    THEN { [result EXCEPT !.topics = topics] : topics \in normalize_topics(result.topics) }
    ELSE { result }

\* analyze_with_claude (provider = "Claude") and analyze_with_openai
\* (provider = "OpenAI"), which differ in the endpoint, the response
\* envelope and the provider's name in the messages.  The text sent is cut
\* to 8000 characters (lines 212-215); the response does not depend on it
\* here, since any response is possible for any text.
analyze_with_remote(provider, api_key_set, text, backend) ==
    IF ~api_key_set THEN { Raise(provider \o " API key not configured") }
    ELSE IF text = "" \/ Strip(text) = "" THEN { Raise("Empty text provided for analysis") }
    ELSE IF backend.k = "timeout" THEN { Raise(provider \o " API timeout") }
    ELSE IF backend.k = "connect" THEN { Raise(provider \o " API connection failed") }
    ELSE IF backend.k = "transport" THEN { Raise(backend.msg) }
    ELSE IF backend.k = "status" /\ backend.code # 200 THEN { Raise(status_error(backend.code)) }
    ELSE IF backend.k = "badjson" THEN { Raise("Invalid JSON response from " \o provider \o " API") }
    ELSE IF backend.k = "nocontent"
    THEN { Raise((IF provider = "Claude" THEN "Empty content in " ELSE "Empty choices in ")
                    \o provider \o " API response") }
    ELSE IF backend.k = "notext"
    THEN { Raise((IF provider = "Claude" THEN "No text in " ELSE "No content in ")
                    \o provider \o " API response") }
    ELSE UNION { IF o.raised THEN {o} ELSE { Ok(r) : r \in renormalize(o.value) } :
                    o \in validate_ai_result(extract_json_from_text(backend.resp)) }

(***************************************************************************)
(* analyze_feedback.                                                       *)
(***************************************************************************)
remote_services == {"claude", "openai"}

\* Lines 163-184 without the sentiment check of 172-175.
ensure_fields_any_sentiment(result) ==
    [result EXCEPT !.sentiment = IF @ = Absent THEN "neutral" ELSE @,
                   !.topics    = topics_as_list(result),
                   !.tkind     = "list"]

\* Lines 163-184: missing fields are defaulted, an invalid sentiment is
\* reset, and topics that are not a list are wrapped or emptied.
ensure_fields(result) ==
    [result EXCEPT !.sentiment = clean_sentiment(result),
                   !.topics    = topics_as_list(result),
                   !.tkind     = "list"]

\* Lines 186-188 left out: the remote result is never reconciled.
adjust_never(result, rating, service) == result

\* Lines 186-188.
adjust_if_remote(result, rating, service) ==
    IF rating # NoRating /\ service \in remote_services
    THEN adjust_sentiment_with_rating(result, rating)
    ELSE result

\* Lines 191-193: `if error_details:` is false for None and for ''.
annotate_error(result, error_details) ==
    IF error_details \notin {Absent, ""}
    THEN [result EXCEPT !.ai_error = error_details, !.fallback_used = TRUE]
    ELSE result

\* Line 151: `except Exception` catches every exception the try block can
\* raise, whatever its message.
handler_catches(msg) == TRUE

\* Lines 141-155: the try block and its handler.  Each element is the
\* result in hand after the block, the error_details, whether an exception
\* left the function, the number of calls made of the remote function and
\* of analyze_local, and the path taken: "local" (no remote service
\* configured), "remote" (the remote call returned) or "fallback" (the
\* remote call raised and analyze_local ran in the handler).
try_analysis(text, rating, service, api_key_set, backend) ==
    LET attempts ==
            IF service \in remote_services
            THEN IF backend.k = "stub_return" THEN { Ok(backend.value) }
                 ELSE IF backend.k = "stub_raise" THEN { Raise(backend.msg) }
                 ELSE analyze_with_remote(IF service = "claude" THEN "Claude" ELSE "OpenAI",
                                          api_key_set, text, backend)
            ELSE { Ok(r) : r \in analyze_local(text, rating) }
        remote == IF service \in remote_services THEN 1 ELSE 0
    IN  UNION { IF o.raised /\ handler_catches(o.msg)
                THEN { [result |-> r, error_details |-> o.msg, raised |-> FALSE,
                        remote_calls |-> remote, local_calls |-> 1, path |-> "fallback"] :
                         r \in analyze_local(text, rating) }
                ELSE { [result |-> o.value,
                        error_details |-> IF o.raised THEN o.msg ELSE Absent,
                        raised |-> o.raised,
                        remote_calls |-> remote, local_calls |-> 1 - remote,
                        path |-> IF remote = 1 THEN "remote" ELSE "local"] } :
                o \in attempts }

\* Lines 157-160: a falsy or non-dict result is replaced by the local analysis.
replace_invalid(t, text, rating) ==
    IF Falsy(t.result) \/ t.result.kind # "dict"
    THEN { [t EXCEPT !.result = r, !.local_calls = @ + 1, !.path = "fallback"] :
             r \in analyze_local(text, rating) }
    ELSE { t }

\* The input test without the strip().
empty_input_unstripped(text) == text = ""

\* Line 130: not text or not text.strip()
empty_input(text) == text = "" \/ Strip(text) = ""

\* analyze_feedback: the set of outcomes of one call.  An outcome holds the
\* returned result, whether an exception left the function instead, the
\* calls made, the path, the error_details of line 152 (Absent when the try
\* block did not raise), and classifier_sentiment: the sentiment of the
\* result just before the rating adjustment of lines 186-188.
analyze_feedback(text, rating, service, api_key_set, backend) ==
    IF empty_input(text)
    THEN { [result |-> [Dict("neutral", "list", <<>>) EXCEPT !.error = "Empty input text"],
            raised |-> FALSE, remote_calls |-> 0, local_calls |-> 0, path |-> "empty",
            error_details |-> Absent, classifier_sentiment |-> "neutral"] }
    ELSE LET tried == try_analysis(text, rating, service, api_key_set, backend)
         IN  { [result |-> PyNone, raised |-> TRUE, remote_calls |-> t.remote_calls,
                local_calls |-> t.local_calls, path |-> t.path,
                error_details |-> t.error_details,
                classifier_sentiment |-> Absent] : t \in { u \in tried : u.raised } }
             \cup
             { [result |-> annotate_error(
                              adjust_if_remote(ensure_fields(t.result), rating, service),
                              t.error_details),
                raised |-> FALSE,
                remote_calls |-> t.remote_calls,
                local_calls |-> t.local_calls,
                path |-> t.path,
                error_details |-> t.error_details,
                classifier_sentiment |-> ensure_fields(t.result).sentiment] :
                t \in UNION { replace_invalid(t0, text, rating) :
                                t0 \in { u \in tried : ~u.raised } } }

(***************************************************************************)
(* The inputs of the classifier.                                           *)
(***************************************************************************)
AnalysisTexts ==
    {"", "  ",
     "Good, good and bad",
     "Great product, excellent quality!",
     "This product is terrible and I hate it",
     "Okay product",
     "ok",
     "Good service, fast shipping, fair price, easy app"}

Ratings == {NoRating} \cup (1..5)

Services == {"claude", "openai", "local"}

LongTopic == "an extremely long topic phrase about the customer service"

\* Response texts: bare JSON of several shapes, JSON embedded in prose, a
\* nested object in a fenced block, prose for the regexes, and nothing.
NoMatches == << <<>>, <<>>, <<>>, <<>> >>

ResponseTexts ==
    { Response(Dict("positive", "list", <<"product quality", "customer service">>), NoMatches, Absent, <<>>),
      Response(Dict("negative", "list", <<"shipping", "customer service">>), NoMatches, Absent, <<>>),
      Response(Dict("mixed", "str", <<"slow delivery">>), NoMatches, Absent, <<>>),
      Response(Dict("neutral", "list", <<"price", "", LongTopic, "xyzzy", "refund", "chat">>), NoMatches, Absent, <<>>),
      Response(Dict("neutral", "list", <<"easy", " website ", "invoice", "email">>), NoMatches, Absent, <<>>),
      Response(Dict("positive", "list", <<"staff", "service", "helpful">>), NoMatches, Absent, <<>>),
      Response(Dict("positive", "none", <<>>), NoMatches, Absent, <<>>),
      Response(NonDict, NoMatches, Absent, <<>>),
      Response(PyNone, NoMatches, Absent, <<>>),
      Response(EmptyDict, NoMatches, Absent, <<>>),
      Response(NoJson, << <<Dict("positive", "list", <<"easy">>)>>, <<>>, <<>>, <<>> >>, Absent, <<>>),
      Response(NoJson, << <<>>, <<NoJson>>, <<[Dict("negative", "list", <<"refund">>) EXCEPT !.extra = TRUE]>>, <<>> >>, Absent, <<>>),
      Response(NoJson, NoMatches, "Negative", <<"billing", "app", " ", "email", "phone", "cost", "quality">>),
      Response(NoJson, NoMatches, Absent, <<>>) }

\* No request is made (local service, empty text, or no API key).
NoBackend == Backend("none")

HttpBackends ==
    { Backend("timeout"), Backend("connect"),
      [Backend("transport") EXCEPT !.msg = ""],
      [Backend("transport") EXCEPT !.msg = "Server disconnected without sending a response."],
      Backend("badjson"), Backend("nocontent"), Backend("notext") }
    \cup { [Backend("status") EXCEPT !.code = c] : c \in {401, 429, 500, 404} }
    \cup { [Backend("text") EXCEPT !.resp = r] : r \in ResponseTexts }

StubBackends ==
    { [Backend("stub_return") EXCEPT !.value = v] :
        v \in { PyNone, NonDict, EmptyDict, [EmptyDict EXCEPT !.extra = TRUE],
                Dict("mixed", "str", <<"shipping">>),
                Dict("positive", "none", <<>>),
                Dict("positive", "list", <<"product quality", "customer service">>) } }
    \cup { [Backend("stub_raise") EXCEPT !.msg = m] : m \in {"API Error", ""} }

(***************************************************************************)
(* The import batch of upload_universal_reviews (feedback.py, 592-614),    *)
(* after the records have been persisted by the batch insert of 588-590.   *)
(* The loop suspends in each record's analyze_and_update_feedback; what    *)
(* happens to a record is one of                                            *)
(*   "stored"           classified, result committed (lines 490-506)       *)
(*   "classify_raised"  an exception before the commit, then rollback      *)
(*   "commit_raised"    db.commit() raised, then rollback (508-511)        *)
(*   "rollback_raised"  db.rollback() raised too: the exception leaves     *)
(*                      analyze_and_update_feedback and is caught by the   *)
(*                      loop's handler (598-599).                          *)
(***************************************************************************)
ItemOutcomes == {"stored", "classify_raised", "commit_raised", "rollback_raised"}

\* What analyze_and_update_feedback does last for the record.
item_event(outcome) ==
    IF outcome = "stored" THEN "commit"
    ELSE IF outcome = "rollback_raised" THEN "rollback_failed"
    ELSE "rollback"

\* Lines 595-599: analyzed_count += 1 runs whenever the call returns, and
\* analyze_and_update_feedback returns normally after its own handler.
count_analyzed(analyzed_count, outcome) ==
    IF outcome = "rollback_raised" THEN analyzed_count ELSE analyzed_count + 1

\* The loop without its handler: an exception that leaves
\* analyze_and_update_feedback ends the loop.
next_item_aborting(i, n, outcome) == IF outcome = "rollback_raised" THEN n + 1 ELSE i + 1

\* Line 594: the for loop goes on to the next record whatever happened.
next_item(i, n, outcome) == i + 1

Event(what, item) == [what |-> what, item |-> item]

\* The loop from record i on, up to its next suspension or to the report.
enter_item(b, i) ==
    IF i <= b.n
    THEN [b EXCEPT !.pc = "analyzing", !.i = i,
                   !.attempts = [@ EXCEPT ![i] = @ + 1],
                   !.log = Append(@, Event("start", i))]
    ELSE [b EXCEPT !.pc = "done", !.i = i,
                   !.report = [imported_count |-> b.n, analyzed_count |-> b.analyzed_count]]

IdleBatch ==
    [pc |-> "idle", n |-> 0, i |-> 0, analyzed_count |-> 0, attempts |-> <<>>,
     status |-> <<>>, log |-> <<>>,
     report |-> [imported_count |-> 0, analyzed_count |-> 0]]

(***************************************************************************)
(* Initial states.  The pure functions (_normalize_rating,                 *)
(* validate_and_clean, _adjust_sentiment_with_rating) start with their     *)
(* arguments drawn and not yet called; the coroutines start idle.          *)
(***************************************************************************)
EmptyTable == [has_rating |-> TRUE, has_comment |-> TRUE, rows |-> <<>>]

NoOutcome ==
    [result |-> PyNone, raised |-> FALSE, remote_calls |-> 0, local_calls |-> 0,
     path |-> "empty", error_details |-> Absent, classifier_sentiment |-> Absent]

IdleAnalysis ==
    [pc |-> "idle", text |-> "", rating |-> NoRating, service |-> "local",
     api_key_set |-> FALSE, backend |-> NoBackend, out |-> NoOutcome]

\* The results _adjust_sentiment_with_rating is applied to: dicts with a
\* valid, an invalid, an empty and a missing sentiment.
AdjustInputs ==
    { Dict(sentiment, "list", topics) :
        sentiment \in valid_sentiments \cup {"mixed", "", Absent},
        topics \in {<<>>, <<"Product Quality">>, <<"General Feedback">>} }

(***************************************************************************)
(* A cell of an uploaded table: missing (None / NaN), a number (in tenths) *)
(* or a string that is not a number.                                       *)
(***************************************************************************)
RawMissing   == [k |-> "nan",  v |-> 0, s |-> ""]
RawNumber(v) == [k |-> "num",  v |-> v, s |-> ""]
RawText(s)   == [k |-> "text", v |-> 0, s |-> s]

(***************************************************************************)
(* _parse_dates.  A cell of a date column is missing or a string.  A       *)
(* parsed value is a timestamp or NaT.  pd.to_datetime(..., format=fmt,    *)
(* errors='coerce') is computed by strptime below; the generic             *)
(* pd.to_datetime(..., errors='coerce') depends on the pandas version and  *)
(* on the other cells of the column (format inference), and is an input    *)
(* of the call: see GenericOutcomes.                                       *)
(***************************************************************************)
NaT == [k |-> "nat", Y |-> 0, m |-> 0, d |-> 0, H |-> 0, M |-> 0, S |-> 0]

Timestamp(f) == [k |-> "date", Y |-> f.Y, m |-> f.m, d |-> f.d, H |-> f.H, M |-> f.M, S |-> f.S]

IsNaT(t) == t.k = "nat"

Digits == "0123456789"

IsDigit(c) == \E i \in 1..Len(Digits) : Char(Digits, i) = c

DigitValue(c) == (CHOOSE i \in 1..Len(Digits) : Char(Digits, i) = c) - 1

\* The length of the run of digits of text that starts at pos.
RECURSIVE DigitRun(_, _)
DigitRun(text, pos) ==
    IF pos <= Len(text) /\ IsDigit(Char(text, pos)) THEN 1 + DigitRun(text, pos + 1) ELSE 0

\* int() of a string of digits.
RECURSIVE ToNumber(_)
ToNumber(digits) ==
    IF Len(digits) = 0 THEN 0
    ELSE 10 * ToNumber(SubSeq(digits, 1, Len(digits) - 1)) + DigitValue(Char(digits, Len(digits)))

Directives == {"Y", "m", "d", "H", "M", "S"}

\* The digits a directive accepts: %Y is four digits, the others one or
\* two digits of a value in the directive's range.
FieldOk(directive, run, value) ==
    CASE directive = "Y" -> run = 4
      [] directive = "m" -> run \in 1..2 /\ value \in 1..12
      [] directive = "d" -> run \in 1..2 /\ value \in 1..31
      [] directive = "H" -> run \in 1..2 /\ value \in 0..23
      [] directive = "M" -> run \in 1..2 /\ value \in 0..59
      [] directive = "S" -> run \in 1..2 /\ value \in 0..59

NoFields == [Y |-> 0, m |-> 0, d |-> 0, H |-> 0, M |-> 0, S |-> 0]

SetField(fields, directive, value) ==
    CASE directive = "Y" -> [fields EXCEPT !.Y = value]
      [] directive = "m" -> [fields EXCEPT !.m = value]
      [] directive = "d" -> [fields EXCEPT !.d = value]
      [] directive = "H" -> [fields EXCEPT !.H = value]
      [] directive = "M" -> [fields EXCEPT !.M = value]
      [] directive = "S" -> [fields EXCEPT !.S = value]

\* The text read against the format from position pos on: the fields, or
\* NoFields when the text does not match the whole format.
RECURSIVE Scan(_, _, _, _)
Scan(fmt, text, pos, fields) ==
    IF fmt = <<>> THEN (IF pos = Len(text) + 1 THEN fields ELSE NoFields)
    ELSE IF Head(fmt) \in Directives
    THEN LET run   == DigitRun(text, pos)
             value == ToNumber(SubSeq(text, pos, pos + run - 1))
         IN  IF run > 0 /\ FieldOk(Head(fmt), run, value)
             THEN Scan(Tail(fmt), text, pos + run, SetField(fields, Head(fmt), value))
             ELSE NoFields
    ELSE IF pos <= Len(text) /\ Char(text, pos) = Head(fmt)
    THEN Scan(Tail(fmt), text, pos + 1, fields)
    ELSE NoFields

IsLeap(Y) == (Y % 4 = 0 /\ Y % 100 # 0) \/ Y % 400 = 0

DaysInMonth(Y, m) ==
    IF m = 2 THEN (IF IsLeap(Y) THEN 29 ELSE 28)
    ELSE IF m \in {4, 6, 9, 11} THEN 30 ELSE 31

\* A pandas Timestamp lies between the years 1677 and 2262.
InTimestampRange(Y) == 1678 <= Y /\ Y <= 2261

\* pd.to_datetime(cell, format=fmt, errors='coerce') of one cell.
strptime(cell, fmt) ==
    IF cell.k # "text" THEN NaT
    ELSE LET fields == Scan(fmt, cell.s, 1, NoFields)
         IN  IF fields = NoFields THEN NaT
             ELSE IF InTimestampRange(fields.Y) /\ fields.d <= DaysInMonth(fields.Y, fields.m)
             THEN Timestamp(fields)
             ELSE NaT

\* formats_to_try
formats_to_try ==
    << <<"Y", "-", "m", "-", "d", " ", "H", ":", "M", ":", "S">>,
       <<"Y", "-", "m", "-", "d">>,
       <<"m", "/", "d", "/", "Y">>,
       <<"d", "/", "m", "/", "Y">>,
       <<"Y", "/", "m", "/", "d">>,
       <<"m", "-", "d", "-", "Y">>,
       <<"d", "-", "m", "-", "Y">> >>

\* pd.to_datetime(dates, format=fmt, errors='coerce')
to_datetime_format(dates, fmt) == [i \in 1..Len(dates) |-> strptime(dates[i], fmt)]

\* parsed.isna().sum()
isna_sum(parsed) == Cardinality({ i \in 1..Len(parsed) : IsNaT(parsed[i]) })

\* failed_count > len(dates) * 0.5
many_failed(failed_count, length) == 2 * failed_count > length

\* An attempt replaces the kept one also on a tie (`<=` for `<`).
fewer_failures_or_tie(alt_failed, failed_count) == alt_failed <= failed_count

\* alt_failed < failed_count
fewer_failures(alt_failed, failed_count) == alt_failed < failed_count

\* The loop over formats_to_try from the format of index n on; attempts
\* counts the calls of pd.to_datetime made so far.
RECURSIVE try_formats(_, _, _, _)
try_formats(dates, n, parsed_dates, attempts) ==
    IF n > Len(formats_to_try) THEN [parsed_dates |-> parsed_dates, attempts |-> attempts]
    ELSE LET alt_parsed == to_datetime_format(dates, formats_to_try[n])
         IN  IF fewer_failures(isna_sum(alt_parsed), isna_sum(parsed_dates))
             THEN try_formats(dates, n + 1, alt_parsed, attempts + 1)
             ELSE try_formats(dates, n + 1, parsed_dates, attempts + 1)

\* UniversalReviewImporter._parse_dates, given what the generic parse of
\* the column returned.
parse_dates(dates, generic) ==
    IF many_failed(isna_sum(generic), Len(dates))
    THEN try_formats(dates, 1, generic, 1)
    ELSE [parsed_dates |-> generic, attempts |-> 1]

\* The timestamps the generic parser can read from a string: any reading
\* of the explicit formats, and the reading of a format only it knows.
GenericOnly(s) ==
    IF s = "Jan 15, 2024" THEN {Timestamp([NoFields EXCEPT !.Y = 2024, !.m = 1, !.d = 15])} ELSE {}

Readings(cell) ==
    IF cell.k # "text" THEN {}
    ELSE ({ strptime(cell, formats_to_try[n]) : n \in 1..Len(formats_to_try) } \ {NaT})
            \cup GenericOnly(cell.s)

\* What pd.to_datetime(dates, errors='coerce') can return: a missing cell
\* and a string with no reading become NaT; a string with a reading becomes
\* one of its readings, or NaT when it does not fit the format pandas
\* inferred for the column.  The first string with a reading is parsed.
RECURSIVE GenericOutcomesFrom(_, _)
GenericOutcomesFrom(dates, none_read) ==
    IF dates = <<>> THEN {<<>>}
    ELSE LET readings == Readings(Head(dates))
             choices  == IF none_read /\ readings # {} THEN readings ELSE readings \cup {NaT}
         IN  { <<parsed>> \o rest :
                 parsed \in choices,
                 rest \in GenericOutcomesFrom(Tail(dates), none_read /\ readings = {}) }

GenericOutcomes(dates) == GenericOutcomesFrom(dates, TRUE)

\* The strings of the date columns: an ISO date, an ambiguous date (US or
\* EU), an EU date, a date only the generic parser reads, and no date.
DateTexts ==
    { "2024-01-15", "01/02/2024", "15/01/2024", "Jan 15, 2024", "not_a_date" }

DateCells == {RawMissing} \cup { RawText(s) : s \in DateTexts }

(***************************************************************************)
(* map_columns and _find_column.  An uploaded table has named columns and  *)
(* the cells of each column; column names are distinct.                    *)
(***************************************************************************)
RawTable(columns, data) == [columns |-> columns, data |-> data]

\* len(df)
NRows(df) == IF Len(df.data) = 0 THEN 0 ELSE Len(df.data[1])

\* df[name] with the rows in reverse order.
column_reversed(df, name) ==
    LET column == df.data[CHOOSE j \in 1..Len(df.columns) : df.columns[j] = name]
    IN  [i \in 1..Len(column) |-> column[Len(column) + 1 - i]]

\* df[name]
Column(df, name) == df.data[CHOOSE j \in 1..Len(df.columns) : df.columns[j] = name]

Platforms == {"google", "yelp", "facebook", "amazon", "tripadvisor", "generic"}

\* COLUMN_MAPPINGS: per platform and canonical field, the ordered variants.
COLUMN_MAPPINGS(platform) ==
    CASE platform = "google" ->
            [rating |-> <<"star_rating", "rating", "stars", "review_rating">>,
             comment |-> <<"review_text", "comment", "review_comment", "text", "review">>,
             date |-> <<"review_date", "date", "created_date", "timestamp", "create_time">>,
             reviewer |-> <<"reviewer_name", "customer_name", "name", "reviewer", "reviewer_display_name">>,
             source |-> <<"source", "platform">>]
      [] platform = "yelp" ->
            [rating |-> <<"rating", "stars", "star_rating">>,
             comment |-> <<"text", "review_text", "comment">>,
             date |-> <<"date", "review_date", "created_date">>,
             reviewer |-> <<"user_name", "reviewer_name", "name">>,
             source |-> <<"source">>]
      [] platform = "facebook" ->
            [rating |-> <<"rating", "recommendation_type", "stars">>,
             comment |-> <<"review_text", "comment", "message">>,
             date |-> <<"created_time", "date">>,
             reviewer |-> <<"reviewer_name", "from_name", "name">>,
             source |-> <<"source">>]
      [] platform = "amazon" ->
            [rating |-> <<"star_rating", "rating", "stars">>,
             comment |-> <<"review_body", "review_text", "comment">>,
             date |-> <<"review_date", "date">>,
             reviewer |-> <<"reviewer_name", "customer_name">>,
             source |-> <<"marketplace", "source">>]
      [] platform = "tripadvisor" ->
            [rating |-> <<"rating", "stars", "star_rating">>,
             comment |-> <<"review_text", "text", "comment">>,
             date |-> <<"date", "review_date", "visit_date">>,
             reviewer |-> <<"reviewer_name", "username", "name">>,
             source |-> <<"source">>]
      [] platform = "generic" ->
            [rating |-> <<"rating", "stars", "star_rating", "score">>,
             comment |-> <<"comment", "review", "text", "feedback", "review_text", "feedback_text">>,
             date |-> <<"date", "created_date", "review_date", "timestamp">>,
             reviewer |-> <<"name", "customer_name", "reviewer_name", "user_name">>,
             source |-> <<"source", "platform", "origin">>]

\* {col: col.lower().strip() for col in df.columns}, in the order of the columns.
columns_dict(columns) ==
    [j \in 1..Len(columns) |-> [original |-> columns[j], lower |-> Strip(Lower(columns[j]))]]

\* possible_name == lower_col or possible_name in lower_col or lower_col in possible_name
name_matches(possible_name, lower_col) ==
    \/ possible_name = lower_col
    \/ Contains(lower_col, possible_name)
    \/ Contains(possible_name, lower_col)

\* The return value None of _find_column.
NoColumn == "<None>"

\* The pairs (variant, column) of _find_column's two loops that match.
column_hits(columns, possible_names) ==
    { h \in (1..Len(possible_names)) \X (1..Len(columns)) :
        name_matches(possible_names[h[1]], columns[h[2]].lower) }

\* The search with the loops exchanged: columns outside, variants inside.
find_column_column_major(columns, possible_names) ==
    LET hits == column_hits(columns, possible_names)
    IN  IF hits = {} THEN NoColumn
        ELSE LET first == CHOOSE h \in hits :
                            \A g \in hits : h[2] < g[2] \/ (h[2] = g[2] /\ h[1] <= g[1])
             IN  columns[first[2]].original

\* UniversalReviewImporter._find_column: variants outside, columns inside,
\* the first match returned.
find_column(columns, possible_names) ==
    LET hits == column_hits(columns, possible_names)
    IN  IF hits = {} THEN NoColumn
        ELSE LET first == CHOOSE h \in hits :
                            \A g \in hits : h[1] < g[1] \/ (h[1] = g[1] /\ h[2] <= g[2])
             IN  columns[first[2]].original

\* `if rating_col:` - None and the empty string are falsy.
Truthy(col) == col # NoColumn /\ col # ""

UpperChar(c) ==
    IF \E i \in 1..Len(LowerLetters) : Char(LowerLetters, i) = c
    THEN Char(UpperLetters, CHOOSE i \in 1..Len(LowerLetters) : Char(LowerLetters, i) = c)
    ELSE c

\* str.title() of a word.
Title(s) == IF Len(s) = 0 THEN s ELSE UpperChar(Char(s, 1)) \o Lower(SubSeq(s, 2, Len(s)))

\* The five searches of map_columns.
found_columns(df, platform) ==
    LET mappings == COLUMN_MAPPINGS(platform)
    IN  TheOne({ [rating   |-> find_column(lowered, mappings.rating),
                  comment  |-> find_column(lowered, mappings.comment),
                  date     |-> find_column(lowered, mappings.date),
                  reviewer |-> find_column(lowered, mappings.reviewer),
                  source   |-> find_column(lowered, mappings.source)] :
                 lowered \in {columns_dict(df.columns)} })

\* The result of a call of map_columns that raised.
MapRaised ==
    [raised |-> TRUE, columns |-> <<>>, nrows |-> 0, rating |-> <<>>, comment |-> <<>>,
     date |-> <<>>, reviewer_name |-> <<>>, source |-> <<>>]

\* A scalar among the values of pd.DataFrame(dict) is repeated on every row.
broadcast(platform, nrows) == [i \in 1..nrows |-> RawText(Title(platform))]

\* UniversalReviewImporter.map_columns once its five searches are made,
\* given what the generic parse of the date column returned.
\* pd.DataFrame(mapped_data) raises ValueError when every value of the dict
\* is a scalar, which is the case when no column was found: the only entry
\* is then the platform name.
map_columns_with(df, found, platform, generic) ==
    IF \A f \in DOMAIN found : ~Truthy(found[f]) THEN MapRaised
    ELSE [raised        |-> FALSE,
          columns       |-> (IF Truthy(found.rating) THEN <<"rating">> ELSE <<>>)
                              \o (IF Truthy(found.comment) THEN <<"comment">> ELSE <<>>)
                              \o (IF Truthy(found.date) THEN <<"date">> ELSE <<>>)
                              \o (IF Truthy(found.reviewer) THEN <<"reviewer_name">> ELSE <<>>)
                              \o <<"source">>,
          nrows         |-> NRows(df),
          rating        |-> IF Truthy(found.rating)
                            THEN normalize_rating(Column(df, found.rating)) ELSE <<>>,
          comment       |-> IF Truthy(found.comment) THEN Column(df, found.comment) ELSE <<>>,
          date          |-> IF Truthy(found.date)
                            THEN parse_dates(Column(df, found.date), generic).parsed_dates ELSE <<>>,
          reviewer_name |-> IF Truthy(found.reviewer) THEN Column(df, found.reviewer) ELSE <<>>,
          source        |-> IF Truthy(found.source) THEN Column(df, found.source)
                            ELSE broadcast(platform, NRows(df))]

\* The results map_columns can return once its five searches are made.
map_columns_found(df, found, platform) ==
    IF Truthy(found.date)
    THEN { map_columns_with(df, found, platform, generic) :
             generic \in GenericOutcomes(Column(df, found.date)) }
    ELSE { map_columns_with(df, found, platform, <<>>) }

\* UniversalReviewImporter.map_columns: the results it can return.
map_columns(df, platform) ==
    UNION { map_columns_found(df, found, platform) : found \in {found_columns(df, platform)} }

\* The column names of the enumerated tables: names that match variants of
\* several fields, that match through containment only, and that match none.
MapColumnNames == {"rating", "review", "source", "unknown_col1"}

MapColumnLists ==
    { columns \in SeqsUpTo(MapColumnNames, MaxColumns) :
        \A i, j \in 1..Len(columns) : columns[i] = columns[j] => i = j }
      \cup TestColumnLists

\* What the cells of a column hold, by its name: numbers, dates or text.
ColumnKind(name) ==
    LET lower == Strip(Lower(name))
    IN  IF AnyIn(<<"rating", "star", "score">>, lower) THEN "number"
        ELSE IF AnyIn(<<"date", "time">>, lower) THEN "date"
        ELSE "text"

\* The rows of the enumerated tables: a five-star review of John Doe with
\* an ISO date ("full"), a review on a ten-point scale with a blank name
\* and an EU date ("ten"), and a row of missing values ("blank").
RowFills == {"full", "ten", "blank"}

\* The rows of the tables of scenario A: all on the 1-5 scale.
ScenarioFills == {"full", "three", "blank"}

SampleCell(kind, fill, ordinal) ==
    IF fill = "blank" THEN RawMissing
    ELSE IF kind = "number"
    THEN RawNumber(CASE fill = "full" -> Tenths(5) [] fill = "three" -> Tenths(3) [] OTHER -> Tenths(8))
    ELSE IF kind = "date"
    THEN RawText(IF fill = "ten" THEN "15/01/2024" ELSE "2024-01-15")
    ELSE CASE fill = "full" ->
                RawText(IF ordinal % 2 = 1 THEN "John Doe" ELSE "Great service and friendly staff!")
           [] fill = "three" ->
                RawText(IF ordinal % 2 = 1 THEN "Jane Roe" ELSE " It was okay. ")
           [] OTHER ->
                RawText(IF ordinal % 2 = 1 THEN "  " ELSE "Terrible")

SampleTable(columns, fills) ==
    TheOne({ RawTable(columns,
                      [j \in 1..Len(columns) |->
                         [i \in 1..Len(fills) |->
                             SampleCell(kinds[j], fills[i],
                                        Cardinality({ t \in 1..j : kinds[t] = "text" }))]]) :
             kinds \in {[j \in 1..Len(columns) |-> ColumnKind(columns[j])]} })

ScenarioAColumns == <<"reviewer_display_name", "star_rating", "review_text", "create_time">>

RawTables ==
    { SampleTable(columns, fills) : columns \in MapColumnLists, fills \in SeqsUpTo(RowFills, MaxRows) }
      \cup { SampleTable(ScenarioAColumns, fills) : fills \in SeqsUpTo(ScenarioFills, MaxRows) }

NoneFound ==
    [rating |-> NoColumn, comment |-> NoColumn, date |-> NoColumn,
     reviewer |-> NoColumn, source |-> NoColumn]

(***************************************************************************)
(* preview_csv.  The file content is empty (pd.read_csv raises             *)
(* EmptyDataError), malformed (pd.read_csv raises ParserError) or the text *)
(* of a table with at least one column, which may have no rows.            *)
(***************************************************************************)
EmptyContent     == [k |-> "empty",     df |-> RawTable(<<>>, <<>>)]
MalformedContent == [k |-> "malformed", df |-> RawTable(<<>>, <<>>)]
TableContent(df) == [k |-> "table",     df |-> df]

\* The comment cell validate_and_clean sees; astype(str) of a number is its
\* decimal text, which is not blank.
mapped_comment(cell) ==
    IF cell.k = "nan" THEN NoComment
    ELSE IF cell.k = "text" THEN Comment(cell.s)
    ELSE Comment("<number>")

\* The mapped table as validate_and_clean reads it.
mapped_table(mapped) ==
    [has_rating  |-> "rating" \in Range(mapped.columns),
     has_comment |-> "comment" \in Range(mapped.columns),
     rows        |-> [i \in 1..mapped.nrows |->
                        Row(IF "rating" \in Range(mapped.columns) THEN mapped.rating[i] ELSE NaN,
                            IF "comment" \in Range(mapped.columns)
                            THEN mapped_comment(mapped.comment[i]) ELSE NoComment)]]

\* str(e) of the KeyError of dropna: the labels of the subset that are no columns.
dropna_error(df) ==
    IF ~df.has_comment /\ ~df.has_rating THEN "['comment', 'rating']"
    ELSE IF ~df.has_comment THEN "['comment']"
    ELSE "['rating']"

Raised(error) ==
    [raised |-> TRUE, valid |-> FALSE, error |-> error, suggestions |-> <<>>,
     detected_platform |-> Absent, total_rows |-> 0, valid_rows |-> 0]

Report(valid, error, suggestions, platform, total_rows, valid_rows) ==
    [raised |-> FALSE, valid |-> valid, error |-> error, suggestions |-> suggestions,
     detected_platform |-> platform, total_rows |-> total_rows, valid_rows |-> valid_rows]

\* Lines 465-467 for one platform tag and one mapped table.
preview_mapped(df, platform, mapped) ==
    IF mapped.raised THEN Raised("If using all scalar values, you must pass an index")
    ELSE LET cleaned == validate_and_clean(mapped_table(mapped))
         IN  IF cleaned.raised THEN Raised(dropna_error(mapped_table(mapped)))
             ELSE Report(Len(cleaned.rows) > 0, Absent, <<>>, platform,
                         NRows(df), Len(cleaned.rows))

\* The body of the try block of preview_csv: the reports it can return and
\* the exceptions it can raise.
preview_body(content) ==
    IF content.k = "empty" THEN {Raised("No columns to parse from file")}
    ELSE IF content.k = "malformed" THEN {Raised("Error tokenizing data")}
    ELSE IF Len(content.df.columns) = 0 \/ NRows(content.df) = 0
    THEN {Report(FALSE, "CSV file is empty", <<"Ensure the CSV file contains data">>, Absent, 0, 0)}
    ELSE UNION { { preview_mapped(content.df, platform, mapped) :
                     mapped \in map_columns(content.df, platform) } :
                 platform \in detect_platform(content.df.columns) }

\* A handler for the errors of pd.read_csv only: any other exception leaves
\* preview_csv.
handle_read_errors(outcome) ==
    IF outcome.raised
          /\ outcome.error \in {"No columns to parse from file", "Error tokenizing data"}
    THEN Report(FALSE, outcome.error,
                <<"Ensure file is a valid CSV", "Check that required columns exist",
                  "Verify data format matches expected types",
                  "Make sure text with commas is properly quoted">>, Absent, 0, 0)
    ELSE outcome

\* except Exception as e: the report with str(e) and the four suggestions.
handle_exception(outcome) ==
    IF outcome.raised
    THEN Report(FALSE, outcome.error,
                <<"Ensure file is a valid CSV", "Check that required columns exist",
                  "Verify data format matches expected types",
                  "Make sure text with commas is properly quoted">>, Absent, 0, 0)
    ELSE outcome

\* UniversalReviewImporter.preview_csv: the reports it can return.
preview_csv(content) == { handle_exception(outcome) : outcome \in preview_body(content) }

\* The contents given to preview_csv.
FileContents ==
    {EmptyContent, MalformedContent}
        \cup { TableContent(df) : df \in { t \in RawTables : Len(t.columns) > 0 } }

\* The results _validate_ai_result is applied to: dicts with valid, invalid
\* and missing sentiments, with topic lists that are empty, short, longer
\* than three, and that hold blank and overlong entries, with topics that
\* are a string or None, and values that are no dict.
ValidateTopicLists ==
    { <<>>,
      <<"quality", "service">>,
      <<" website ">>,
      <<"product quality", "customer service", "shipping", "pricing", "user experience">>,
      <<"price", "", LongTopic, "xyzzy", "refund", "chat">>,
      <<LongTopic, "  ", "extra topic">> }

ValidateInputs ==
    { Dict(sentiment, "list", topics) :
        sentiment \in valid_sentiments \cup {"very_happy", "", Absent},
        topics \in ValidateTopicLists }
      \cup { Dict(sentiment, "str", <<topic>>) :
               sentiment \in {"positive", "very_happy"}, topic \in {"slow delivery", LongTopic} }
      \cup { Dict("negative", "none", <<>>), EmptyDict, NonDict, PyNone }

(***************************************************************************)
(* Response texts that are not JSON as a whole, built from pieces.  Each   *)
(* piece is described by what the four json_patterns and the two           *)
(* last-resort regexes find in it:                                         *)
(*   keyed         {"sentiment": "positive", "topics": ["easy"]}           *)
(*   keyed_broken  {"sentiment": "positive", "topics": ["easy",]}          *)
(*   other         {"note": "see below"}                                   *)
(*   fenced_json   ```json {"sentiment": "negative", "topics":             *)
(*                 ["refund"], "meta": {"a": 1}} ```                       *)
(*   fenced        ``` {"sentiment": "neutral", "topics": ["app"],         *)
(*                 "meta": {"a": 1}} ```                                   *)
(*   sentiment     sentiment: Negative                                     *)
(*   topics        topics: ["billing", " ", 'app']                         *)
(*   prose         I cannot classify this.                                 *)
(* \{.*?\} stops at the first closing brace, so of a nested object it      *)
(* finds a prefix that is not JSON; the last-resort regexes need the key   *)
(* followed by a colon, which a quoted key is not.                         *)
(***************************************************************************)
PieceKinds ==
    {"keyed", "keyed_broken", "other", "fenced_json", "fenced", "sentiment", "topics", "prose"}

OtherObject == [EmptyDict EXCEPT !.extra = TRUE]

NestedJson  == [Dict("negative", "list", <<"refund">>) EXCEPT !.extra = TRUE]

NestedPlain == [Dict("neutral", "list", <<"app">>) EXCEPT !.extra = TRUE]

\* The matches of json_patterns[n] in a piece.
piece_matches(piece, n) ==
    CASE piece = "keyed"        /\ n \in {1, 2} -> <<Dict("positive", "list", <<"easy">>)>>
      [] piece = "keyed_broken" /\ n \in {1, 2} -> <<NoJson>>
      [] piece = "other"        /\ n = 2        -> <<OtherObject>>
      [] piece = "fenced_json"  /\ n = 2        -> <<NoJson>>
      [] piece = "fenced_json"  /\ n = 3        -> <<NestedJson>>
      [] piece = "fenced"       /\ n = 2        -> <<NoJson>>
      [] piece = "fenced"       /\ n = 4        -> <<NestedPlain>>
      [] OTHER                                  -> <<>>

\* re.findall over the text: the matches of the pieces, in text order.
RECURSIVE text_matches(_, _)
text_matches(pieces, n) ==
    IF pieces = <<>> THEN <<>>
    ELSE piece_matches(Head(pieces), n) \o text_matches(Tail(pieces), n)

\* re.search finds the first match in the text.
first_sentiment(pieces) ==
    IF \E i \in 1..Len(pieces) : pieces[i] = "sentiment" THEN "Negative" ELSE Absent

first_topics(pieces) ==
    IF \E i \in 1..Len(pieces) : pieces[i] = "topics" THEN <<"billing", " ", "app">> ELSE <<>>

ResponseOf(pieces) ==
    Response(NoJson, [n \in 1..4 |-> text_matches(pieces, n)],
             first_sentiment(pieces), first_topics(pieces))

\* The texts given to _extract_json_from_text.
ExtractTexts ==
    ResponseTexts \cup { ResponseOf(pieces) : pieces \in SeqsUpTo(PieceKinds, MaxPieces) }

(***************************************************************************)
(* The feedback store of one user (routers/feedback.py).  A request holds  *)
(* its own database session; rows it has added are pending until it       *)
(* commits.  The session is made with autoflush off (db/database.py), so a *)
(* count query inside the request sees the committed rows only.            *)
(***************************************************************************)
FREE_TIER_FEEDBACK_LIMIT == 100
MaxUploadRows == 3

autoflush == FALSE

\* db.query(FeedbackItem).filter(owner_id == user.id).count(), asked by a
\* session that has `pending` rows added and not yet committed.
query_count(stored, pending) == IF autoflush THEN stored + pending ELSE stored

check_usage_limits(count) == count >= FREE_TIER_FEEDBACK_LIMIT

\* The row loop of upload_csv_feedback: each row is either skipped for its
\* empty feedback_text or added to the session; the loop stops at the first
\* row for which the limit check answers true.
RECURSIVE csv_rows(_, _, _, _, _)
csv_rows(stored, rows, i, created_count, failed_count) ==
    IF i > Len(rows) \/ check_usage_limits(query_count(stored, created_count))
    THEN [created |-> created_count, failed |-> failed_count]
    ELSE IF rows[i] = "blank"
         THEN csv_rows(stored, rows, i + 1, created_count, failed_count + 1)
         ELSE csv_rows(stored, rows, i + 1, created_count + 1, failed_count)

\* The row loop of upload_universal_reviews: the items are collected in a
\* list, outside the session, and added after the loop.
RECURSIVE universal_rows(_, _, _)
universal_rows(stored, rows_left, feedback_items) ==
    IF rows_left = 0 \/ check_usage_limits(query_count(stored, 0))
    THEN feedback_items
    ELSE universal_rows(stored, rows_left - 1, feedback_items + 1)

CsvRowKinds == {"text", "blank"}
CsvUploads == SeqsUpTo(CsvRowKinds, MaxUploadRows)

NoRequest == "none"

NrArgs(ratings)        == [called |-> FALSE, ratings |-> ratings, normalized |-> <<>>]
VcArgs(df)             == [called |-> FALSE, df |-> df, out |-> validate_and_clean(EmptyTable)]
ArArgs(result, rating) == [called |-> FALSE, result |-> result, rating |-> rating, adjusted |-> EmptyDict]
DpArgs(columns)        == [calls |-> 0, columns |-> columns, first |-> "generic", second |-> "generic"]
NtArgs(raw_topics)     == [calls |-> 0, raw_topics |-> raw_topics, normalized |-> <<>>, again |-> <<>>]
PdArgs(dates, generic) == [called |-> FALSE, dates |-> dates, generic |-> generic, out |-> parse_dates(<<>>, <<>>)]
McArgs(df, platform)   == [called |-> FALSE, given |-> df, df |-> df, platform |-> platform, found |-> NoneFound, out |-> MapRaised]
PvArgs(content)        == [called |-> FALSE, content |-> content, out |-> Raised("")]
VaArgs(result)         == [called |-> FALSE, result |-> result, out |-> Raise("")]
EjArgs(text)           == [called |-> FALSE, text |-> text, out |-> NoJson]
FbArgs(stored) == [stored |-> stored, request |-> NoRequest, status |-> 0, created |-> 0, failed |-> 0]

InitNr == nr = NrArgs(<<>>)
InitVc == vc = VcArgs(EmptyTable)
InitAr == ar = ArArgs(EmptyDict, NoRating)
InitAf == af = IdleAnalysis
InitUb == ub = IdleBatch
InitDp == dp = DpArgs(<<>>)
InitNt == nt = NtArgs(<<>>)
InitPdt == pdt = PdArgs(<<>>, <<>>)
InitMc == mc = McArgs(RawTable(<<>>, <<>>), "generic")
InitPv == pv = PvArgs(EmptyContent)
InitVa == va = VaArgs(EmptyDict)
InitEj == ej = EjArgs(NoResponse)
InitFb == fb = FbArgs(0)

Init == InitNr /\ InitVc /\ InitAr /\ InitAf /\ InitUb /\ InitDp /\ InitNt /\ InitPdt /\ InitMc /\ InitPv /\ InitVa /\ InitEj /\ InitFb

InitRating ==
    /\ nr \in { NrArgs(ratings) : ratings \in SeqsUpTo(RatingCells, MaxSeries) }
    /\ InitVc /\ InitAr /\ InitAf /\ InitUb /\ InitDp /\ InitNt /\ InitPdt /\ InitMc /\ InitPv /\ InitVa /\ InitEj /\ InitFb

InitValidate ==
    /\ vc \in { VcArgs(df) : df \in { t \in Tables : WellFormedTable(t) } }
    /\ InitNr /\ InitAr /\ InitAf /\ InitUb /\ InitDp /\ InitNt /\ InitPdt /\ InitMc /\ InitPv /\ InitVa /\ InitEj /\ InitFb

InitAdjust ==
    /\ ar \in { ArArgs(result, rating) : result \in AdjustInputs, rating \in {NoRating} \cup (0..6) }
    /\ InitNr /\ InitVc /\ InitAf /\ InitUb /\ InitDp /\ InitNt /\ InitPdt /\ InitMc /\ InitPv /\ InitVa /\ InitEj /\ InitFb

InitDetect ==
    /\ dp \in { DpArgs(columns) : columns \in ColumnLists }
    /\ InitNr /\ InitVc /\ InitAr /\ InitAf /\ InitUb /\ InitNt /\ InitPdt /\ InitMc /\ InitPv /\ InitVa /\ InitEj /\ InitFb

InitTopics ==
    /\ nt \in { NtArgs(raw_topics) : raw_topics \in SeqsUpTo(TopicPhrases, MaxTopics) }
    /\ InitNr /\ InitVc /\ InitAr /\ InitAf /\ InitUb /\ InitDp /\ InitPdt /\ InitMc /\ InitPv /\ InitVa /\ InitEj /\ InitFb

InitDates ==
    /\ pdt \in UNION { { PdArgs(dates, generic) : generic \in GenericOutcomes(dates) } :
                        dates \in SeqsUpTo(DateCells, MaxDates) }
    /\ InitNr /\ InitVc /\ InitAr /\ InitAf /\ InitUb /\ InitDp /\ InitNt /\ InitMc /\ InitPv /\ InitVa /\ InitEj /\ InitFb

InitMap ==
    /\ mc \in { McArgs(df, platform) : df \in RawTables, platform \in Platforms }
    /\ InitNr /\ InitVc /\ InitAr /\ InitAf /\ InitUb /\ InitDp /\ InitNt /\ InitPdt /\ InitPv /\ InitVa /\ InitEj /\ InitFb

InitPreview ==
    /\ pv \in { PvArgs(content) : content \in FileContents }
    /\ InitNr /\ InitVc /\ InitAr /\ InitAf /\ InitUb /\ InitDp /\ InitNt /\ InitPdt /\ InitMc /\ InitVa /\ InitEj /\ InitFb

InitValidateAi ==
    /\ va \in { VaArgs(result) : result \in ValidateInputs }
    /\ InitNr /\ InitVc /\ InitAr /\ InitAf /\ InitUb /\ InitDp /\ InitNt /\ InitPdt /\ InitMc /\ InitPv /\ InitEj /\ InitFb

InitExtract ==
    /\ ej \in { EjArgs(text) : text \in ExtractTexts }
    /\ InitNr /\ InitVc /\ InitAr /\ InitAf /\ InitUb /\ InitDp /\ InitNt /\ InitPdt /\ InitMc /\ InitPv /\ InitVa /\ InitFb

InitStore ==
    /\ fb = FbArgs(0)
    /\ InitNr /\ InitVc /\ InitAr /\ InitAf /\ InitUb /\ InitDp /\ InitNt /\ InitPdt /\ InitMc /\ InitPv /\ InitVa /\ InitEj

(***************************************************************************)
(* Actions.                                                                *)
(***************************************************************************)
\* The call of _normalize_rating on the column.
NormalizeRating ==
    /\ ~nr.called
    /\ nr' = [nr EXCEPT !.called = TRUE, !.normalized = normalize_rating(nr.ratings)]
    /\ UNCHANGED <<vc, ar, af, ub, dp, nt, pdt, mc, pv, va, ej, fb>>

\* The call of validate_and_clean on the mapped table.
ValidateAndClean ==
    /\ ~vc.called
    /\ vc' = [vc EXCEPT !.called = TRUE, !.out = validate_and_clean(vc.df)]
    /\ UNCHANGED <<nr, ar, af, ub, dp, nt, pdt, mc, pv, va, ej, fb>>

\* The call of _adjust_sentiment_with_rating.
AdjustSentiment ==
    /\ ~ar.called
    /\ ar' = [ar EXCEPT !.called = TRUE,
                        !.adjusted = adjust_sentiment_with_rating(ar.result, ar.rating)]
    /\ UNCHANGED <<nr, vc, af, ub, dp, nt, pdt, mc, pv, va, ej, fb>>

\* A call of detect_platform on the column list (the list is given twice).
DetectPlatform ==
    /\ dp.calls < 2
    /\ \E tag \in detect_platform(dp.columns) :
          dp' = IF dp.calls = 0
                THEN [dp EXCEPT !.calls = 1, !.first = tag]
                ELSE [dp EXCEPT !.calls = 2, !.second = tag]
    /\ UNCHANGED <<nr, vc, ar, af, ub, nt, pdt, mc, pv, va, ej, fb>>

\* The call of normalize_topics on the phrases.
NormalizeTopics ==
    /\ nt.calls = 0
    /\ \E out \in normalize_topics(nt.raw_topics) :
          nt' = [nt EXCEPT !.calls = 1, !.normalized = out]
    /\ UNCHANGED <<nr, vc, ar, af, ub, dp, pdt, mc, pv, va, ej, fb>>

\* The call of normalize_topics on the list the first call returned.
NormalizeTopicsAgain ==
    /\ nt.calls = 1
    /\ \E out \in normalize_topics(nt.normalized) :
          nt' = [nt EXCEPT !.calls = 2, !.again = out]
    /\ UNCHANGED <<nr, vc, ar, af, ub, dp, pdt, mc, pv, va, ej, fb>>

\* analyze_feedback is called.  With empty text or without a remote
\* service it runs to its return without suspending; otherwise it suspends
\* in the remote call.
AnalyzeFeedbackCall ==
    /\ af.pc = "idle"
    /\ \E text \in AnalysisTexts, rating \in Ratings, service \in Services,
          api_key_set \in BOOLEAN :
          LET call == [IdleAnalysis EXCEPT !.text = text, !.rating = rating,
                                           !.service = service, !.api_key_set = api_key_set]
          IN  IF empty_input(text) \/ service \notin remote_services
              THEN \E out \in analyze_feedback(text, rating, service, api_key_set, NoBackend) :
                      af' = [call EXCEPT !.pc = "done", !.out = out]
              ELSE af' = [call EXCEPT !.pc = "awaiting"]
    /\ UNCHANGED <<nr, vc, ar, ub, dp, nt, pdt, mc, pv, va, ej, fb>>

\* The remote call ends, in one of the ways the backend can answer, and
\* analyze_feedback runs to its return.  Without an API key no request is
\* sent, so the backend has no say.
RemoteCallEnds ==
    /\ af.pc = "awaiting"
    /\ \E backend \in HttpBackends \cup StubBackends \cup {NoBackend} :
          /\ (backend = NoBackend) <=> ~af.api_key_set
          /\ \E out \in analyze_feedback(af.text, af.rating, af.service, af.api_key_set, backend) :
                af' = [af EXCEPT !.pc = "done", !.backend = backend, !.out = out]
    /\ UNCHANGED <<nr, vc, ar, ub, dp, nt, pdt, mc, pv, va, ej, fb>>

\* The caller takes the result.
AnalyzeFeedbackReturn ==
    /\ af.pc = "done"
    /\ af' = IdleAnalysis
    /\ UNCHANGED <<nr, vc, ar, ub, dp, nt, pdt, mc, pv, va, ej, fb>>

\* upload_universal_reviews has persisted n records and enters its analysis
\* loop (n = 0 when the usage limit stopped the batch before its first row).
UploadUniversal ==
    /\ ub.pc = "idle"
    /\ \E n \in 0..MaxBatch :
          ub' = enter_item([IdleBatch EXCEPT !.n = n,
                                             !.attempts = [k \in 1..n |-> 0],
                                             !.status = [k \in 1..n |-> "persisted"]], 1)
    /\ UNCHANGED <<nr, vc, ar, af, dp, nt, pdt, mc, pv, va, ej, fb>>

\* analyze_and_update_feedback ends for the current record, and the loop
\* goes on to its next suspension or to the report.
ItemEnds ==
    /\ ub.pc = "analyzing"
    /\ \E outcome \in ItemOutcomes :
          ub' = enter_item([ub EXCEPT !.status = [@ EXCEPT ![ub.i] = outcome],
                                      !.log = Append(@, Event(item_event(outcome), ub.i)),
                                      !.analyzed_count = count_analyzed(@, outcome)],
                           next_item(ub.i, ub.n, outcome))
    /\ UNCHANGED <<nr, vc, ar, af, dp, nt, pdt, mc, pv, va, ej, fb>>

\* The import report is returned to the client.
UploadReturn ==
    /\ ub.pc = "done"
    /\ ub' = IdleBatch
    /\ UNCHANGED <<nr, vc, ar, af, dp, nt, pdt, mc, pv, va, ej, fb>>

\* The call of _parse_dates on the column.
ParseDates ==
    /\ ~pdt.called
    /\ pdt' = [pdt EXCEPT !.called = TRUE, !.out = parse_dates(pdt.dates, pdt.generic)]
    /\ UNCHANGED <<nr, vc, ar, af, ub, dp, nt, mc, pv, va, ej, fb>>

\* The call of map_columns on the table: the table is read only.
MapColumns ==
    /\ ~mc.called
    /\ \E found \in {found_columns(mc.df, mc.platform)} :
       \E out \in map_columns_found(mc.df, found, mc.platform) :
          mc' = [mc EXCEPT !.called = TRUE, !.found = found, !.out = out]
    /\ UNCHANGED <<nr, vc, ar, af, ub, dp, nt, pdt, pv, va, ej, fb>>

\* The call of preview_csv on the content.
PreviewCsv ==
    /\ ~pv.called
    /\ \E report \in preview_csv(pv.content) :
          pv' = [pv EXCEPT !.called = TRUE, !.out = report]
    /\ UNCHANGED <<nr, vc, ar, af, ub, dp, nt, pdt, mc, va, ej, fb>>

\* The call of _validate_ai_result.
ValidateAiResult ==
    /\ ~va.called
    /\ \E out \in validate_ai_result(va.result) :
          va' = [va EXCEPT !.called = TRUE, !.out = out]
    /\ UNCHANGED <<nr, vc, ar, af, ub, dp, nt, pdt, mc, pv, ej, fb>>

\* The call of _extract_json_from_text on the response text.
ExtractJson ==
    /\ ~ej.called
    /\ ej' = [ej EXCEPT !.called = TRUE, !.out = extract_json_from_text(ej.text)]
    /\ UNCHANGED <<nr, vc, ar, af, ub, dp, nt, pdt, mc, pv, va, fb>>

CreateFeedback ==
    /\ fb' = IF check_usage_limits(query_count(fb.stored, 0))
             THEN [fb EXCEPT !.request = "create", !.status = 402,
                             !.created = 0, !.failed = 0]
             ELSE [fb EXCEPT !.request = "create", !.status = 201,
                             !.stored = @ + 1, !.created = 1, !.failed = 0]
    /\ UNCHANGED <<nr, vc, ar, af, ub, dp, nt, pdt, mc, pv, va, ej>>

UploadCsvFeedback ==
    \E rows \in CsvUploads :
        \E counts \in {csv_rows(fb.stored, rows, 1, 0, 0)} :
            /\ fb' = [fb EXCEPT !.request = "upload-csv", !.status = 201,
                                !.stored = @ + counts.created,
                                !.created = counts.created,
                                !.failed = counts.failed]
            /\ UNCHANGED <<nr, vc, ar, af, ub, dp, nt, pdt, mc, pv, va, ej>>

UploadUniversalReviews ==
    \E clean_rows \in 0..MaxUploadRows :
        /\ fb' = IF clean_rows = 0
                 THEN [fb EXCEPT !.request = "upload-universal", !.status = 500,
                                 !.created = 0, !.failed = 0]
                 ELSE [fb EXCEPT !.request = "upload-universal", !.status = 201,
                                 !.stored = @ + universal_rows(fb.stored, clean_rows, 0),
                                 !.created = universal_rows(fb.stored, clean_rows, 0),
                                 !.failed = 0]
        /\ UNCHANGED <<nr, vc, ar, af, ub, dp, nt, pdt, mc, pv, va, ej>>

(***************************************************************************)
(* Specifications: one per component, and their composition.               *)
(***************************************************************************)
NextRating     == NormalizeRating
NextValidate   == ValidateAndClean
NextAdjust     == AdjustSentiment
NextClassifier == AnalyzeFeedbackCall \/ RemoteCallEnds \/ AnalyzeFeedbackReturn
NextBatch      == UploadUniversal \/ ItemEnds \/ UploadReturn
NextDetect     == DetectPlatform
NextTopics     == NormalizeTopics \/ NormalizeTopicsAgain
NextDates      == ParseDates
NextMap        == MapColumns
NextPreview    == PreviewCsv
NextValidateAi == ValidateAiResult
NextExtract    == ExtractJson
NextStore      == CreateFeedback \/ UploadCsvFeedback \/ UploadUniversalReviews

Next == NextRating \/ NextValidate \/ NextAdjust \/ NextClassifier \/ NextBatch
            \/ NextDetect \/ NextTopics \/ NextDates \/ NextMap \/ NextPreview \/ NextValidateAi \/ NextExtract \/ NextStore

Spec           == Init /\ [][Next]_vars
SpecRating     == InitRating /\ [][NextRating]_vars
SpecValidate   == InitValidate /\ [][NextValidate]_vars
SpecAdjust     == InitAdjust /\ [][NextAdjust]_vars
SpecClassifier == Init /\ [][NextClassifier]_vars
SpecBatch      == Init /\ [][NextBatch]_vars
SpecDetect     == InitDetect /\ [][NextDetect]_vars
SpecTopics     == InitTopics /\ [][NextTopics]_vars
SpecDates      == InitDates /\ [][NextDates]_vars
SpecMap        == InitMap /\ [][NextMap]_vars
SpecPreview    == InitPreview /\ [][NextPreview]_vars
SpecValidateAi == InitValidateAi /\ [][NextValidateAi]_vars
SpecExtract    == InitExtract /\ [][NextExtract]_vars
SpecStore      == InitStore /\ [][NextStore]_vars

\* The event loop resumes a coroutine whose awaited call has ended, and the
\* awaited call does end: the remote request has a 15 s timeout (lines 218
\* and 323 of ai_service.py) and the local analysis does not wait.
SpecBatchFair  == SpecBatch /\ WF_vars(ItemEnds)

(***************************************************************************)
(* Properties.                                                             *)
(***************************************************************************)
Done == af.pc = "done"

Result == af.out.result

\* The rating thresholds as the specification states them.
ThresholdSentiment(rating) ==
    CASE rating <= 2 -> "negative"
      [] rating = 3  -> "neutral"
      [] rating >= 4 -> "positive"

NoDuplicates(s) == \A i, j \in 1..Len(s) : s[i] = s[j] => i = j

\* C1: analyze_feedback never raises to its caller: whatever the text, the
\* rating, the service type and the outcome of the remote backend (success,
\* an exception, a None or non-dict result, a dict without sentiment or
\* topics), the result's sentiment is positive, negative or neutral and its
\* topics is a list.
C1_AlwaysValidResult ==
    Done => /\ ~af.out.raised
            /\ Result.kind = "dict"
            /\ Result.sentiment \in {"positive", "negative", "neutral"}
            /\ Result.tkind = "list"

\* The remote function returned None and a valid result came back.
C1_Witness ==
    /\ Done
    /\ af.backend.k = "stub_return" /\ af.backend.value = PyNone
    /\ af.out.path = "fallback"
    /\ Result.sentiment = "positive"

\* C2: when a remote backend is configured and the remote call raises any
\* exception, the remote backend is attempted exactly once, the local
\* analysis runs exactly once, and the local result is returned annotated
\* with fallback_used = true and ai_error; the exception is not propagated.
C2_RemoteFailureAnnotated ==
    (Done /\ af.service \in {"claude", "openai"} /\ af.out.error_details # Absent)
        => /\ ~af.out.raised
           /\ af.out.remote_calls = 1
           /\ af.out.local_calls = 1
           /\ Result.method = "local_analysis"
           /\ Result.fallback_used
           /\ Result.ai_error # Absent

\* C3: whenever a rating is supplied with non-empty text, the final
\* sentiment is the rating-threshold sentiment, regardless of the text, in
\* local-only analysis, on remote success and on remote failure.
C3_RatingDecidesSentiment ==
    (Done /\ af.rating # NoRating /\ af.out.path # "empty")
        => Result.sentiment = ThresholdSentiment(af.rating)

\* The remote classifier said positive about a 1-star review.
C3_Witness ==
    /\ Done
    /\ af.out.path = "remote"
    /\ af.rating = 1
    /\ af.out.classifier_sentiment = "positive"
    /\ Result.sentiment = "negative"

\* C4: _adjust_sentiment_with_rating: for a classifier sentiment and a
\* rating that disagree, the result's sentiment becomes the rating-threshold
\* sentiment, sentiment_adjusted is true and original_ai_sentiment holds the
\* sentiment before the override; when they agree, or the rating is None,
\* the result is returned unchanged, without sentiment_adjusted.  (A result
\* with no sentiment, or an empty one, has no classifier sentiment.)
C4_AdjustContract ==
    (ar.called /\ ar.result.sentiment \notin {Absent, ""})
        => IF ar.rating # NoRating /\ ar.result.sentiment # ThresholdSentiment(ar.rating)
           THEN /\ ar.adjusted.sentiment = ThresholdSentiment(ar.rating)
                /\ ar.adjusted.sentiment_adjusted
                /\ ar.adjusted.original_ai_sentiment = ar.result.sentiment
                /\ ar.adjusted.topics = ar.result.topics
           ELSE /\ ar.adjusted = ar.result
                /\ ~ar.adjusted.sentiment_adjusted

\* A positive classifier sentiment overridden by a rating of 3.
C4_Witness ==
    /\ ar.called
    /\ ar.result.sentiment = "positive" /\ ar.rating = 3
    /\ ar.adjusted.sentiment = "neutral"
    /\ ar.adjusted.original_ai_sentiment = "positive"

\* The sentiment derived from the text before the rating is looked at: the
\* classifier's on the remote path, the keyword count's on the local paths.
DerivedSentiment ==
    IF af.out.path = "remote" THEN af.out.classifier_sentiment ELSE text_sentiment(af.text)

OwnClassifier == ~IsStub(af.backend)

\* No keyword of the taxonomy occurs in the text.
NoKeywordInText ==
    \A t \in 1..Len(STANDARD_TOPICS) : \A k \in 1..Len(STANDARD_TOPICS[t].keywords) :
        ~Contains(Lower(af.text), STANDARD_TOPICS[t].keywords[k])

C7_InOrderOnce ==
    /\ \A k \in 1..ub.n : ub.attempts[k] <= 1
    /\ \A j \in 1..Len(ub.log) :
          /\ ub.log[j].item = (j + 1) \div 2
          /\ (j % 2 = 1) => ub.log[j].what = "start"
          /\ (j % 2 = 0) => ub.log[j].what \in {"commit", "rollback", "rollback_failed"}
    /\ ub.pc = "done" =>
          /\ \A k \in 1..ub.n : ub.attempts[k] = 1 /\ ub.status[k] # "persisted"
          /\ Len(ub.log) = 2 * ub.n
          /\ ub.report.imported_count = ub.n

\* C7: in the import batch, classification is attempted for every persisted
\* record exactly once, in record order, each record's classification and
\* its commit or rollback ending before the next record starts; a failure on
\* one record does not keep the others from being processed, and the request
\* ends with the import report.
C7_BatchCompletesInOrder ==
    /\ []C7_InOrderOnce
    /\ (ub.pc = "analyzing") ~> (ub.pc = "done")

\* Three records: the commit of the first and the rollback of the second
\* fail, and the third is still analysed and stored before the report.
C7_Witness ==
    /\ ub.pc = "done" /\ ub.n = 3
    /\ ub.status = <<"commit_raised", "rollback_raised", "stored">>
    /\ ub.attempts = <<1, 1, 1>>

\* C8: in the import report the analyzed count is the number of records
\* whose analysis result was stored; a record whose classification or
\* commit raised is not counted as analyzed.
C8_AnalyzedCountIsStoredCount ==
    ub.pc = "done" =>
        ub.report.analyzed_count = Cardinality({ k \in 1..ub.n : ub.status[k] = "stored" })

\* C9: every record that survives validate_and_clean has a rating that is
\* not missing after numeric coercion or a comment that is not empty after
\* trimming; a row with neither is dropped.
C9_SurvivorHasRatingOrComment ==
    (vc.called /\ ~vc.out.raised)
        => \A i \in 1..Len(vc.out.rows) :
              ~IsNaN(vc.out.rows[i].rating) \/ vc.out.rows[i].comment.s # ""

\* A cell holds the number x rounded to the nearest integer (either
\* neighbour on a tie), or is missing when x is missing.
RoundedTo(c, x) ==
    IF x.k # "num" THEN IsNaN(c)
    ELSE /\ c.k = "num"
         /\ c.v % 10 = 0
         /\ c.v - x.v <= 5 /\ x.v - c.v <= 5

HasNumbers(ratings) == \E i \in 1..Len(ratings) : ratings[i].k = "num"
AllAtMost(ratings, b)  == \A i \in 1..Len(ratings) : ratings[i].k = "num" => ratings[i].v <= b
AllAtLeast(ratings, b) == \A i \in 1..Len(ratings) : ratings[i].k = "num" => ratings[i].v >= b

OutputIsRoundedInput ==
    /\ Len(nr.normalized) = Len(nr.ratings)
    /\ \A i \in 1..Len(nr.ratings) : RoundedTo(nr.normalized[i], nr.ratings[i])

\* C10 as stated: for any series whose maximum is <= 5, the output of the
\* Rating Normalizer is the input rounded to the nearest integer.
C10_MaxAtMost5Rounded ==
    (nr.called /\ HasNumbers(nr.ratings) /\ AllAtMost(nr.ratings, 50))
        => OutputIsRoundedInput

\* C10 amended: for any series whose maximum is <= 5 and whose minimum is
\* >= 1, the output of the Rating Normalizer is the input rounded to the
\* nearest integer (so normalizing an already normalized series changes
\* nothing).
C10_OneToFiveRounded ==
    (nr.called /\ HasNumbers(nr.ratings) /\ AllAtMost(nr.ratings, 50)
               /\ AllAtLeast(nr.ratings, 10))
        => /\ OutputIsRoundedInput
           /\ normalize_rating(nr.normalized) = nr.normalized

\* A column on the 1-5 scale with a fraction and a tie: 2.7 became 3 and
\* 2.5 became 2.
C10_Witness ==
    /\ nr.called
    /\ nr.ratings = <<Num(27), Num(25), Num(50)>>
    /\ nr.normalized = <<Num(30), Num(20), Num(50)>>

Clip1To5(n) == IF n < 1 THEN 1 ELSE IF n > 5 THEN 5 ELSE n

SomeAbove(ratings, b) == \E i \in 1..Len(ratings) : ratings[i].k = "num" /\ ratings[i].v > b

\* Every number x of the input became round(x / k) clipped to [1, 5], and
\* every entry that is not a number became missing.
ScaledBy(k) ==
    /\ Len(nr.normalized) = Len(nr.ratings)
    /\ \A i \in 1..Len(nr.ratings) :
          IF nr.ratings[i].k = "num"
          THEN nr.normalized[i] = Num(Tenths(Clip1To5(RoundHalfEven(nr.ratings[i].v, 10 * k))))
          ELSE IsNaN(nr.normalized[i])

\* C11: the scale is chosen once per column from its maximum: for a maximum
\* in (5,10] every value x becomes round(x/2) clipped to [1,5], for a
\* maximum in (10,100] every value becomes round(x/20) clipped to [1,5];
\* on every scale a non-numeric or missing entry comes out missing, never
\* as a clipped bound.
C11_ScaleFromMaximum ==
    nr.called =>
        /\ (SomeAbove(nr.ratings, 50) /\ AllAtMost(nr.ratings, 100)) => ScaledBy(2)
        /\ (SomeAbove(nr.ratings, 100) /\ AllAtMost(nr.ratings, 1000)) => ScaledBy(20)
        /\ Len(nr.normalized) = Len(nr.ratings)
        /\ \A i \in 1..Len(nr.ratings) :
              nr.ratings[i].k # "num" => IsNaN(nr.normalized[i])

\* A 10-point column with a text entry: 5 became 2 (2.5 rounds to even),
\* the text became missing and 10 became 5.
C11_Witness ==
    /\ nr.called
    /\ nr.ratings = <<Num(50), TextCell, Num(100)>>
    /\ nr.normalized = <<Num(20), NaN, Num(50)>>

\* C12: every value produced by the Rating Normalizer that is not missing
\* is an integer between 1 and 5, whatever the scale of the input column.
C12_OutputIntegerOneToFive ==
    nr.called =>
        \A i \in 1..Len(nr.normalized) :
            nr.normalized[i].k = "num"
                => /\ nr.normalized[i].v % 10 = 0
                   /\ Tenths(1) <= nr.normalized[i].v
                   /\ nr.normalized[i].v <= Tenths(5)

\* The platforms in the order the claim fixes.
PlatformOrder == <<"amazon", "google", "yelp", "facebook", "tripadvisor">>

\* The summed score of each platform for the column list, in tenths.
Scores == platform_scores(columns_lower(dp.columns))

BestScore == CHOOSE b \in Range(Scores) : \A x \in Range(Scores) : x <= b

C14_ShortListIsGeneric ==
    (dp.calls >= 1 /\ Len(dp.columns) <= 1) => dp.first = "generic"

\* C15: the column list [name, rating, comment], made only of shared names,
\* scores below the confidence threshold for every platform and is detected
\* as generic.
C15_SharedNamesAreGeneric ==
    (dp.calls >= 1 /\ dp.columns = <<"name", "rating", "comment">>)
        => /\ \A p \in 1..Len(Scores) : Scores[p] < Tenths(3)
           /\ dp.first = "generic"

\* C16: two calls of detect_platform with the same column list return the
\* same tag, also when several platforms tie for the highest score.
C16_SameListSameTag ==
    dp.calls = 2 => dp.first = dp.second

\* Two calls on a list for which amazon and tripadvisor tie.
C16_Witness ==
    /\ dp.calls = 2
    /\ dp.columns = <<" Star_Rating ", "rating">>
    /\ Cardinality({ p \in 1..Len(Scores) : Scores[p] = BestScore }) = 2
    /\ dp.first = "amazon" /\ dp.second = "amazon"

\* C17: normalize_topics applied to a list of canonical names returns
\* exactly that set of names, and applied to its own output it returns the
\* same set, for every input.
C17_IdempotentOnCanonicalNames ==
    /\ (nt.calls >= 1 /\ Range(nt.raw_topics) \subseteq CanonicalTopics)
          => Range(nt.normalized) = Range(nt.raw_topics)
    /\ nt.calls = 2 => Range(nt.again) = Range(nt.normalized)

\* Two canonical names, normalized twice.
C17_Witness ==
    /\ nt.calls = 2
    /\ nt.raw_topics = <<"Pricing & Value", "Communication">>
    /\ Range(nt.normalized) = {"Pricing & Value", "Communication"}
    /\ Range(nt.again) = {"Pricing & Value", "Communication"}

\* The canonical names in the order in which each is first matched while
\* the phrases are scanned.
RECURSIVE FirstMatchOrder(_, _)
FirstMatchOrder(raw_topics, seen) ==
    IF raw_topics = <<>> THEN seen
    ELSE LET t == match_topic(Head(raw_topics))
         IN  FirstMatchOrder(Tail(raw_topics),
                             IF t = NoTopic \/ t \in Range(seen) THEN seen ELSE Append(seen, t))

\* C18: normalize_topics returns the canonical names in the order in which
\* each name was first matched while scanning the input phrases.
C18_FirstMatchOrder ==
    nt.calls >= 1 => nt.normalized = FirstMatchOrder(nt.raw_topics, <<>>)

\* C19: for empty or whitespace-only text analyze_feedback returns
\* sentiment neutral, an empty topics list and an error field, and calls
\* neither the remote backend nor the local analysis, whatever the service
\* type and the rating.
C19_EmptyTextShortCircuits ==
    (Done /\ Strip(af.text) = "")
        => /\ ~af.out.raised
           /\ Result.kind = "dict"
           /\ Result.sentiment = "neutral"
           /\ Result.tkind = "list" /\ Result.topics = <<>>
           /\ Result.error # Absent
           /\ af.out.remote_calls = 0 /\ af.out.local_calls = 0

\* Whitespace-only text with a rating of 5 and the claude service
\* configured: the call returned the error result.
C19_Witness ==
    /\ Done
    /\ af.text = "  " /\ af.rating = 5 /\ af.service = "claude" /\ af.api_key_set
    /\ Result.error = "Empty input text"
    /\ Result.sentiment = "neutral"

\* C20: validate_and_clean reports final_count <= original_count and a
\* success_rate equal to final_count / original_count that lies in [0,1];
\* for an empty table the success_rate is 0 and nothing is divided by 0.
C20_SuccessRateIsAFraction ==
    (vc.called /\ ~vc.out.raised) =>
        LET stats == vc.out.stats
        IN  /\ stats.original_count = Len(vc.df.rows)
            /\ stats.final_count = Len(vc.out.rows)
            /\ stats.final_count <= stats.original_count
            /\ stats.success_rate.den > 0
            /\ 0 <= stats.success_rate.num
            /\ stats.success_rate.num <= stats.success_rate.den
            /\ stats.success_rate.num * stats.original_count
                  = stats.final_count * stats.success_rate.den
            /\ stats.original_count = 0 => stats.success_rate.num = 0

\* A table of two rows of which one is removed: the success rate is 1/2.
C20_Witness ==
    /\ vc.called /\ ~vc.out.raised
    /\ vc.out.stats.original_count = 2 /\ vc.out.stats.final_count = 1
    /\ vc.out.stats.success_rate = [num |-> 1, den |-> 2]

\* The number of places of the text at which the word occurs.
Occurrences(word, text) ==
    Cardinality({ k \in 1..(Len(text) - Len(word) + 1) :
                    SubSeq(text, k, k + Len(word) - 1) = word })

RECURSIVE SumOccurrences(_, _)
SumOccurrences(words, text) ==
    IF words = <<>> THEN 0
    ELSE Occurrences(Head(words), text) + SumOccurrences(Tail(words), text)

\* The number of words of the list that occur in the text.
WordsPresent(words, text) ==
    Cardinality({ i \in 1..Len(words) : Occurrences(words[i], text) > 0 })

BySign(positive_count, negative_count) ==
    IF positive_count > negative_count THEN "positive"
    ELSE IF negative_count > positive_count THEN "negative"
    ELSE "neutral"

\* A call answered by analyze_local alone, on a text that is not blank and
\* without a rating.
LocalWithoutRating ==
    /\ Done /\ ~af.out.raised
    /\ af.out.path = "local"
    /\ af.rating = NoRating
    /\ Strip(af.text) # ""

\* C24 as stated: with no rating, analyze_local counts the occurrences in
\* the text of the positive words and of the negative words and returns
\* the sentiment of the greater count, neutral when they are equal.
C24_SentimentByOccurrences ==
    LocalWithoutRating
        => Result.sentiment = BySign(SumOccurrences(positive_words, Lower(af.text)),
                                     SumOccurrences(negative_words, Lower(af.text)))

\* C24 amended: with no rating, analyze_local counts the words of the
\* positive set that occur in the text and the words of the negative set
\* that occur in it, each word once however often it occurs, and returns
\* the sentiment of the greater count, neutral when they are equal.
C24_SentimentByWordsPresent ==
    LocalWithoutRating
        => Result.sentiment = BySign(WordsPresent(positive_words, Lower(af.text)),
                                     WordsPresent(negative_words, Lower(af.text)))

\* "good" occurs twice and "bad" once: one word of each set is present and
\* the sentiment is neutral.
C24_Witness ==
    /\ LocalWithoutRating
    /\ af.text = "Good, good and bad"
    /\ SumOccurrences(positive_words, Lower(af.text)) = 2
    /\ SumOccurrences(negative_words, Lower(af.text)) = 1
    /\ Result.sentiment = "neutral"


RatingPresentAndValid(row) == ~IsNaN(row.rating) /\ rating_keeps(row)

\* The rows a table with one of the two columns keeps when each rule looks
\* only at the column that exists.
KeptByAvailableField(df) ==
    IF df.has_comment
    THEN SelectSeq([i \in 1..Len(df.rows) |-> clean_comment(df.rows[i])], comment_keeps)
    ELSE SelectSeq([i \in 1..Len(df.rows) |-> coerce_rating(df.rows[i])], RatingPresentAndValid)

\* C28: validate_and_clean of a mapped table that has only one of the
\* rating and comment columns does not raise, keeps every row whose
\* available field is present and valid, and returns the statistics.
C28_OneFieldTableAccepted ==
    (vc.called /\ (vc.df.has_rating # vc.df.has_comment)) =>
        /\ ~vc.out.raised
        /\ vc.out.rows = KeptByAvailableField(vc.df)
        /\ vc.out.stats.original_count = Len(vc.df.rows)
        /\ vc.out.stats.final_count = Len(vc.out.rows)


\* Every attempt _parse_dates can make on the column, in the order made:
\* the generic parse, then the explicit formats.
Attempts ==
    <<pdt.generic>> \o [n \in 1..Len(formats_to_try) |-> to_datetime_format(pdt.dates, formats_to_try[n])]

Failures(parsed) == Cardinality({ i \in 1..Len(parsed) : parsed[i] = NaT })

\* The first of the attempts with the fewest failures.
BestAttempt ==
    CHOOSE k \in 1..Len(Attempts) :
        /\ \A j \in 1..Len(Attempts) : Failures(Attempts[k]) <= Failures(Attempts[j])
        /\ \A j \in 1..(k - 1) : Failures(Attempts[j]) > Failures(Attempts[k])

CanonicalFields == {"rating", "comment", "date", "reviewer", "source"}

\* The column of the mapped table that holds a canonical field.
MappedName(field) == IF field = "reviewer" THEN "reviewer_name" ELSE field

Least(S) == CHOOSE x \in S : \A y \in S : x <= y

\* The positions of the columns whose normalized name equals, contains or
\* is contained in the variant.
MatchingColumns(lowered, variant) ==
    { j \in 1..Len(lowered) : name_matches(variant, lowered[j].lower) }

\* The first column that matches the earliest variant matching any column.
FirstMatch(lowered, variants) ==
    LET matching == { v \in 1..Len(variants) : MatchingColumns(lowered, variants[v]) # {} }
    IN  IF matching = {} THEN NoColumn
        ELSE lowered[Least(MatchingColumns(lowered, variants[Least(matching)]))].original

\* C21: map_columns returns a table for every table and platform and does
\* not raise; a canonical field with no matching column is omitted, and
\* with no matching source column the source is the platform's display
\* name on every row.
C21_AlwaysReturnsATable ==
    mc.called =>
        /\ ~mc.out.raised
        /\ \A field \in CanonicalFields \ {"source"} :
              mc.found[field] = NoColumn => MappedName(field) \notin Range(mc.out.columns)
        /\ mc.found.source = NoColumn =>
              /\ Len(mc.out.source) = NRows(mc.df)
              /\ \A i \in 1..Len(mc.out.source) : mc.out.source[i] = RawText(Title(mc.platform))

\* C22: for each canonical field _find_column returns the first column
\* that matches the earliest variant of the platform's list that matches
\* any column, and no column exactly when no variant matches any column.
C22_EarliestVariantFirstColumn ==
    mc.called =>
        \A lowered \in {columns_dict(mc.df.columns)} :
            \A field \in CanonicalFields :
                LET variants == COLUMN_MAPPINGS(mc.platform)[field]
                IN  /\ mc.found[field] = FirstMatch(lowered, variants)
                    /\ mc.found[field] = NoColumn <=>
                          \A v \in 1..Len(variants) : MatchingColumns(lowered, variants[v]) = {}

\* The google table with the columns review and rating: review matches the
\* fourth rating variant (review_rating), rating matches the first
\* (star_rating), and the rating is taken from the second column; no
\* column matches a source variant.
C22_Witness ==
    /\ mc.called
    /\ mc.platform = "google"
    /\ mc.df.columns = <<"review", "rating">>
    /\ mc.found.rating = "rating"
    /\ mc.found.comment = "review"
    /\ mc.found.source = NoColumn

\* The rating cells of the column are whole numbers from 1 to 5 or missing.
OnOneToFiveScale(column) ==
    \A i \in 1..Len(column) :
        \/ column[i].k = "nan"
        \/ column[i].k = "num" /\ column[i].v \in { Tenths(n) : n \in 1..5 }

SameNumber(rating, cell) == rating.k = cell.k /\ rating.v = cell.v

\* C25: for the columns of scenario A the platform is google, and
\* map_columns of a table whose star ratings are on the 1-5 scale returns a
\* table of as many rows in the same order, with each row's rating equal
\* to its star rating, its comment to its review text and its reviewer
\* name to its reviewer display name; the input table is unchanged.
C25_RowContentPreserved ==
    (/\ mc.called
     /\ mc.given.columns = ScenarioAColumns
     /\ mc.platform = "google"
     /\ OnOneToFiveScale(mc.given.data[2])) =>
        /\ detect_platform(mc.given.columns) = {"google"}
        /\ ~mc.out.raised
        /\ mc.out.nrows = NRows(mc.given)
        /\ Len(mc.out.rating) = NRows(mc.given)
        /\ Len(mc.out.comment) = NRows(mc.given)
        /\ Len(mc.out.reviewer_name) = NRows(mc.given)
        /\ \A i \in 1..NRows(mc.given) :
              /\ SameNumber(mc.out.rating[i], mc.given.data[2][i])
              /\ mc.out.comment[i] = mc.given.data[3][i]
              /\ mc.out.reviewer_name[i] = mc.given.data[1][i]
        /\ mc.df = mc.given

\* Scenario A with the row of John Doe followed by a three-star row.
C25_Witness ==
    /\ mc.called
    /\ mc.given.columns = ScenarioAColumns
    /\ mc.platform = "google"
    /\ NRows(mc.given) = 2
    /\ mc.out.rating = <<Num(Tenths(5)), Num(Tenths(3))>>
    /\ mc.out.comment = <<RawText("Great service and friendly staff!"), RawText(" It was okay. ")>>
    /\ mc.out.reviewer_name = <<RawText("John Doe"), RawText("Jane Roe")>>


\* C23: preview_csv does not raise and its report has a boolean valid; for
\* empty content and for a header without data rows valid is false and the
\* report has a non-empty error and suggestions.
C23_PreviewNeverRaises ==
    pv.called =>
        /\ ~pv.out.raised
        /\ pv.out.valid \in BOOLEAN
        /\ (\/ pv.content.k = "empty"
            \/ pv.content.k = "table" /\ NRows(pv.content.df) = 0) =>
              /\ ~pv.out.valid
              /\ pv.out.error \notin {Absent, ""}
              /\ Len(pv.out.suggestions) > 0

\* The preview of empty content: the EmptyDataError of pd.read_csv became
\* a report with its message and the four suggestions.
C23_Witness ==
    /\ pv.called
    /\ pv.content.k = "empty"
    /\ ~pv.out.raised /\ ~pv.out.valid
    /\ pv.out.error = "No columns to parse from file"
    /\ Len(pv.out.suggestions) = 4


\* The topics value as a list: the list itself, the one-entry list of a
\* truthy value that is no list, the empty list otherwise.
AsList(result) ==
    CASE result.tkind = "list" -> result.topics
      [] result.tkind = "str"  -> <<result.topics[1]>>
      [] OTHER                 -> <<>>

ShortNonBlank(topic) == Len(Strip(topic)) \in 1..50

\* The first three of the entries that are non-blank and at most 50
\* characters long, stripped.
PassedToNormalizer(topics) ==
    LET kept == SelectSeq(topics, ShortNonBlank)
    IN  [i \in 1..(IF Len(kept) < 3 THEN Len(kept) ELSE 3) |-> Strip(kept[i])]

\* C26: _validate_ai_result of a value that is no dict raises ValueError;
\* of a dict it returns one of the three sentiment labels, neutral for any
\* other value, and the Topic Normalizer's output for the first three
\* topics of at most 50 characters (a topics value that is no list being
\* wrapped when truthy and emptied otherwise): at most 3 topics.
C26_ValidatedResult ==
    va.called =>
        IF va.result.kind # "dict"
        THEN va.out.raised /\ va.out.msg = "Invalid AI result format"
        ELSE /\ ~va.out.raised
             /\ va.out.value.sentiment \in valid_sentiments
             /\ va.out.value.sentiment =
                   (IF va.result.sentiment \in valid_sentiments
                    THEN va.result.sentiment ELSE "neutral")
             /\ Len(PassedToNormalizer(AsList(va.result))) <= 3
             /\ \A i \in 1..Len(PassedToNormalizer(AsList(va.result))) :
                   Len(PassedToNormalizer(AsList(va.result))[i]) <= 50
             /\ Range(va.out.value.topics) = normalized_set(PassedToNormalizer(AsList(va.result)))
             /\ NoDuplicates(va.out.value.topics)
             /\ Len(va.out.value.topics) <= 3

\* A dict with the sentiment very_happy and five recognised topics: the
\* sentiment became neutral and three topics were returned.
C26_Witness ==
    /\ va.called
    /\ va.result.sentiment = "very_happy"
    /\ Len(va.result.topics) = 5
    /\ ~va.out.raised
    /\ va.out.value.sentiment = "neutral"
    /\ Len(va.out.value.topics) = 3


\* The first of the matches that json.loads accepts, or NoJson.
FirstParsed(matches) ==
    IF \E i \in 1..Len(matches) : matches[i] # NoJson
    THEN matches[Least({ i \in 1..Len(matches) : matches[i] # NoJson })]
    ELSE NoJson

\* The last resort: the sentiment keyword and the bracketed topic list.
RegexExtraction(text) ==
    Dict(IF text.re_sentiment = Absent THEN "neutral" ELSE Lower(text.re_sentiment),
         "list",
         Prefix(strip_all(SelectSeq(text.re_topics, NonBlank)), 5))

\* The first success of the strategies taken in the order given.
RECURSIVE FirstSuccess(_, _)
FirstSuccess(text, order) ==
    IF order = <<>> THEN RegexExtraction(text)
    ELSE IF FirstParsed(text.patterns[Head(order)]) # NoJson
    THEN FirstParsed(text.patterns[Head(order)])
    ELSE FirstSuccess(text, Tail(order))

\* C27 as stated: the strategies are the whole response, the objects with
\* both keys, the fenced code blocks and the regex extraction, in this
\* order, and the first success is returned.
C27_FourStrategies ==
    ej.called =>
        ej.out = IF ej.text.whole # NoJson THEN ej.text.whole
                 ELSE FirstSuccess(ej.text, <<1, 3, 4>>)

\* C27: the strategies are the whole response, the objects with both keys,
\* any JSON object, the json code blocks, the generic code blocks and the
\* regex extraction, in this order, and the first success is returned;
\* when nothing matches the result is neutral with no topic.
C27_FirstSuccessInOrder ==
    ej.called =>
        /\ ej.out = IF ej.text.whole # NoJson THEN ej.text.whole
                    ELSE FirstSuccess(ej.text, <<1, 2, 3, 4>>)
        /\ (/\ ej.text.whole = NoJson
            /\ \A n \in 1..4 : FirstParsed(ej.text.patterns[n]) = NoJson
            /\ ej.text.re_sentiment = Absent
            /\ ej.text.re_topics = <<>>) => ej.out = Dict("neutral", "list", <<>>)

\* A text with an object that has neither key, followed by the words
\* "sentiment: Negative": the object is returned, not the regex extraction.
C27_Witness ==
    /\ ej.called
    /\ ej.text = ResponseOf(<<"other", "sentiment">>)
    /\ ej.out = OtherObject
    /\ RegexExtraction(ej.text) = Dict("negative", "list", <<>>)

(***************************************************************************)
(* C30: after any sequence of create_feedback, upload-csv and              *)
(* upload-universal requests by one user, the number of feedback items     *)
(* stored for that user never exceeds FREE_TIER_FEEDBACK_LIMIT.            *)
(***************************************************************************)
C30_StoredWithinLimit == fb.stored <= FREE_TIER_FEEDBACK_LIMIT

====
